---- MODULE Spec2Model ----
(***************************************************************************)
(* The two in-memory repositories of getground/interview-backend-golang:   *)
(* ExampleRepositoryImpl (models/example_model.go) and                     *)
(* ListingRepositoryImpl (models/listing.go).  Both keep a map from        *)
(* identity to a POINTER to a record, an identity counter and one          *)
(* sync.RWMutex.  The records live on a heap shared with the callers, so   *)
(* the model keeps the heap, the pointers the callers hold, and each       *)
(* goroutine's position inside the operation it is executing.              *)
(***************************************************************************)
EXTENDS Integers, Sequences, FiniteSets, TLC

\* ------------------------------------------------------------------ bounds
\* Goroutines calling into one repository.
NumProcs == 2
\* Successful Create calls per behaviour (caps the identity counter).
MaxCreates == 2
\* Distinct clock readings time.Now() can return.
MaxTime == 2
\* Goroutines of the concurrent-creation scenario.
NumCallers == 3

\* ------------------------------------------------------------- Go values
\* The nil pointer.
Nil == 0
\* A nil error.
NoErr == "nil"
\* A nil *string, and a pointer to the string s (stringPtr in listing.go).
NilPtr == <<>>
stringPtr(s) == <<s>>

\* time.Now().Format(time.RFC3339) for the clock reading t: one string per
\* second, the strings ordered as the readings are.
RFC3339(t) == "2024-01-01T00:00:0" \o ToString(t) \o "Z"

\* Region and PropertyType constants of listing.go.
RegionNorthWest == "North West"
RegionLondon == "London"
RegionNorthEast == "North East"
RegionSouthWest == "South West"
RegionSouthEast == "South East"
RegionMidlands == "Midlands"
RegionScotland == "Scotland"
RegionWales == "Wales"
PropertyTypeApartment == "apartment"
PropertyTypeDetached == "detached"
PropertyTypeSemiDetached == "semi-detached"
PropertyTypeTerraced == "terraced"
PropertyTypeEndTerrace == "end-terrace"

\* The fields of models.ExampleModel.
ExampleModel(id, name, email) ==
    [ID |-> id, Name |-> name, Email |-> email, CreatedAt |-> "", UpdatedAt |-> ""]

\* The fields of models.Listing that the repository reads or writes.
Listing(id, city, spc, region, ptype, beds, baths, price, mva) ==
    [ID |-> id, City |-> city, ShortenedPostcode |-> spc, Region |-> region,
     PropertyType |-> ptype, Bedrooms |-> beds, Bathrooms |-> baths,
     PriceInCents |-> price, MadeVisibleAt |-> mva]

\* sampleListings of addSampleData, in source order.
sampleListings == <<
    Listing(187, "London", "N17", RegionLondon, PropertyTypeApartment, 1, 1, 12500000, NilPtr),
    Listing(185, "Ashford", "ASF", RegionSouthEast, PropertyTypeApartment, 1, 1, 10000000, NilPtr),
    Listing(79, "Wallington", "SM6", RegionLondon, PropertyTypeApartment, 2, 1, 10000000, stringPtr("2023-02-01T16:42:09Z")),
    Listing(80, "Edinburgh", "EH12", RegionScotland, PropertyTypeApartment, 0, 1, 23456700, stringPtr("2023-02-01T16:52:50Z")),
    Listing(81, "Manchester", "M1", RegionNorthWest, PropertyTypeSemiDetached, 3, 2, 14400000, stringPtr("2023-02-01T17:12:25Z")),
    Listing(82, "London", "W14", RegionLondon, PropertyTypeTerraced, 3, 3, 100000000, stringPtr("2023-02-02T08:36:00Z")),
    Listing(68, "Sheffield", "S1", RegionNorthEast, PropertyTypeApartment, 1, 1, 13875000, stringPtr("2023-09-27T08:14:37Z")),
    Listing(66, "Preston", "PR1", RegionNorthWest, PropertyTypeApartment, 2, 1, 3995000, stringPtr("2023-01-25T15:50:34Z")),
    Listing(71, "Preston", "PR1", RegionNorthWest, PropertyTypeApartment, 3, 1, 88058000, stringPtr("2023-01-25T16:11:54Z")),
    Listing(72, "Preston", "PR1", RegionNorthWest, PropertyTypeApartment, 2, 1, 22429100, stringPtr("2023-02-17T18:20:03Z")),
    Listing(105, "Wallington", "SM6", RegionSouthEast, PropertyTypeApartment, 0, 1, 52500000, stringPtr("2023-03-01T13:39:00Z")),
    Listing(106, "Dover", "DOV", RegionSouthEast, PropertyTypeApartment, 1, 2, 12300000, NilPtr),
    Listing(120, "Henley", "RE1", RegionSouthEast, PropertyTypeApartment, 0, 1, 100000000, stringPtr("2023-03-16T16:11:14Z")),
    Listing(91, "Eastbourne", "BN20", RegionSouthEast, PropertyTypeApartment, 0, 1, 100000000, stringPtr("2023-02-17T17:47:45Z")),
    Listing(94, "London", "N1", RegionLondon, PropertyTypeApartment, 2, 3, 125000, stringPtr("2023-02-20T09:57:55Z")),
    Listing(97, "Brighton", "BN1", RegionSouthEast, PropertyTypeApartment, 0, 1, 50000000, NilPtr),
    Listing(103, "Whitstable", "CT5", RegionSouthEast, PropertyTypeApartment, 0, 1, 100000000, NilPtr),
    Listing(143, "Canterbury", "CT1", RegionSouthEast, PropertyTypeApartment, 0, 1, 20000000, stringPtr("2023-03-27T11:01:38Z")),
    Listing(144, "Maidstone", "MDS", RegionSouthEast, PropertyTypeApartment, 0, 1, 15000000, stringPtr("2023-03-27T11:04:16Z")),
    Listing(148, "London", "W14 8FF", RegionLondon, PropertyTypeTerraced, 3, 1, 35000000, stringPtr("2023-03-28T13:30:27Z")),
    Listing(145, "London", "W14", RegionLondon, PropertyTypeApartment, 0, 1, 25000000, stringPtr("2023-03-27T12:36:10Z")),
    Listing(178, "Spooky City", "SW2", RegionLondon, PropertyTypeTerraced, 3, 3, 9999900, stringPtr("2023-10-13T13:15:07Z")),
    Listing(183, "Maidstone", "ME15", RegionSouthEast, PropertyTypeApartment, 1, 1, 10000000, NilPtr),
    Listing(181, "Cantebury", "CT1", RegionSouthEast, PropertyTypeApartment, 1, 1, 25000000, NilPtr)
>>

\* ------------------------------------------------------- caller inputs
\* Names and emails the callers supply; "" is the empty string the validation
\* rejects, "a" and "A" differ only in letter case.
Names == {"", "n"}
Emails == {"", "a", "A"}

\* Listings the callers supply: the valid listing of the repository tests,
\* the same listing without a city or with a price of 0, and a second valid
\* listing that carries its own MadeVisibleAt.
ValidListing ==
    Listing(0, "London", "W1", RegionSouthEast, PropertyTypeApartment, 2, 1, 10000000, NilPtr)
VisibleListing ==
    Listing(0, "Manchester", "M1", RegionNorthWest, PropertyTypeDetached, 3, 2, 20000000,
            stringPtr("2023-01-01T00:00:00Z"))
ListingInputs ==
    { ValidListing, VisibleListing,
      [ValidListing EXCEPT !.City = ""],
      [ValidListing EXCEPT !.PriceInCents = 0] }
\* Cities a caller writes into a listing it holds.
Cities == {"Manchester"}

\* ------------------------------------------------------------------ state
VARIABLES
    repo,      \* which repository this behaviour exercises: "example" or "listing"
    heap,      \* address -> record: the records the program has allocated
    data,      \* r.data: identity -> address of the stored record
    nextID,    \* r.nextID
    mu,        \* r.mu: [w |-> goroutine holding Lock or Nil, r |-> goroutines holding RLock]
    now,       \* the latest clock reading returned by time.Now()
    pc,        \* goroutine -> position: "idle", "lock", a step of the body, "unlock"
    call,      \* goroutine -> the call it is executing: operation, argument, locals, result
    ref,       \* goroutine -> the record pointer the caller holds in a local variable
    assigned,  \* history: the identities Create has assigned, in order
    created,   \* history: identity -> fields supplied to the Create that assigned it,
               \*          until an Update or Delete of that identity
    deleted    \* history: identities whose Delete succeeded

vars == <<repo, heap, data, nextID, mu, now, pc, call, ref, assigned, created, deleted>>

Procs == DOMAIN pc

\* ---------------------------------------------------------------- helpers
Range(f) == {f[x] : x \in DOMAIN f}
Put(f, k, v) == [x \in DOMAIN f \cup {k} |-> IF x = k THEN v ELSE f[x]]
Remove(f, k) == [x \in DOMAIN f \ {k} |-> f[x]]
EmptyMap == [x \in {} |-> 0]

\* op: the operation; arg: the record pointer (Create, Update) or the identity
\* (GetByID, Delete) passed; given: the record as it was when the call was
\* made (Create, Update), the record removed (Delete);
\* existing: Update's local variable; err, res: the error and records returned.
NoCall ==
    [op |-> "none", arg |-> 0, given |-> <<>>, existing |-> Nil, err |-> NoErr,
     res |-> EmptyMap]

MutationOps == {"Create", "Update", "Delete"}

\* ------------------------------------------------------------- the heap
\* The sample listings are allocated once, by addSampleData: the i-th sample
\* lives at address i for the whole run.  `heap` holds the records allocated
\* later, and the samples a caller has written to; a sample nobody wrote to is
\* read from sampleListings.
StaticHeap == IF repo = "listing" THEN sampleListings ELSE <<>>
NStatic == Len(StaticHeap)

\* *a, and the heap after *a = rec.
At(h, a) == IF a \in DOMAIN h THEN h[a] ELSE StaticHeap[a]
Store(h, a, rec) == Put(h, a, rec)

\* A fresh address.
NewAddr(h) == NStatic + Cardinality(DOMAIN h) + 1

\* An address allocated after construction is only a name: two heaps that
\* differ by a renaming of these addresses are the same heap.  After every step
\* that allocates a record or drops a pointer they are renamed to NStatic + 1,
\* NStatic + 2, ... in the order in which the program reaches them: the stored
\* records by identity, then each caller's local pointer, then the arguments,
\* locals and results of the calls in progress.  Records nothing reaches any
\* more are garbage (Go's collector).
RECURSIVE Ascending(_)
Ascending(S) ==
    IF S = {} THEN <<>>
    ELSE LET m == CHOOSE x \in S : \A y \in S : x <= y IN <<m>> \o Ascending(S \ {m})

\* f[k] for the keys k of f in ascending order.
Values(f) == LET ks == Ascending(DOMAIN f) IN [i \in 1..Len(ks) |-> f[ks[i]]]

RECURSIVE Flatten(_)
Flatten(ss) == IF ss = <<>> THEN <<>> ELSE Head(ss) \o Flatten(Tail(ss))

\* The pointers of one call.
CallPointers(c) ==
    (IF c.op \in {"Create", "Update"} THEN <<c.arg>> ELSE <<>>)
        \o <<c.existing>> \o Values(c.res)

\* Every pointer of the program, and those to records allocated after
\* construction.
Roots(d, rf, cl) ==
    LET cs == Values(cl) IN
    Values(d) \o Values(rf) \o Flatten([p \in 1..Len(cs) |-> CallPointers(cs[p])])
Allocated(s) == SelectSeq(s, LAMBDA a : a > NStatic)
\* The stored records among them.
Stored(d) == [k \in {x \in DOMAIN d : d[x] > NStatic} |-> d[k]]

\* The distinct addresses of a sequence, in order of first occurrence.
RECURSIVE Distinct(_, _)
Distinct(s, seen) ==
    IF s = <<>> THEN seen
    ELSE IF \E i \in 1..Len(seen) : seen[i] = Head(s)
         THEN Distinct(Tail(s), seen)
         ELSE Distinct(Tail(s), Append(seen, Head(s)))

\* The heap h with the pointers d, rf and cl into it, renamed.
Renamed(h, d, rf, cl) ==
    LET roots == Roots(Stored(d), rf, cl)
        order == Distinct(Allocated(roots), <<>>)
        to(a) == IF a <= NStatic THEN a
                 ELSE NStatic + (CHOOSE i \in 1..Len(order) : order[i] = a)
        written == {a \in DOMAIN h : /\ a <= NStatic
                                     /\ h[a] # StaticHeap[a]
                                     /\ \/ a \in Range(d)
                                        \/ \E i \in 1..Len(roots) : roots[i] = a}
    IN  [heap |-> [a \in written \cup (NStatic + 1)..(NStatic + Len(order)) |->
                     IF a <= NStatic THEN h[a] ELSE h[order[a - NStatic]]],
         data |-> [k \in DOMAIN d |-> to(d[k])],
         ref |-> [p \in DOMAIN rf |-> to(rf[p])],
         call |-> [p \in DOMAIN cl |->
                     [cl[p] EXCEPT !.arg = IF cl[p].op \in {"Create", "Update"}
                                           THEN to(@) ELSE @,
                                   !.existing = to(@),
                                   !.res = [k \in DOMAIN @ |-> to(@[k])]]]]

\* The history `created`, kept only by the specifications that switch it on.
Track(c, id, rec) == IF c.on THEN [c EXCEPT !.of = Put(@, id, rec)] ELSE c
Untrack(c, id) == IF c.on THEN [c EXCEPT !.of = Remove(@, id)] ELSE c

\* What the store holds: every stored record by identity, and the counter.
StoreView == [recs |-> [k \in DOMAIN data |-> At(heap, data[k])], nextID |-> nextID]

\* ------------------------------------------------------------ construction
\* addSampleData: r.data[listing.ID] = listing, and the counter is moved
\* past every sample identity.  The i-th sample lives at address i.
RECURSIVE addSampleData(_, _, _)
addSampleData(i, d, n) ==
    IF i > Len(sampleListings) THEN [data |-> d, nextID |-> n]
    ELSE LET listing == sampleListings[i] IN
         addSampleData(i + 1, Put(d, listing.ID, i),
                       IF listing.ID >= n THEN listing.ID + 1 ELSE n)

\* NewExampleRepository: an empty map, nextID 1.
NewExampleRepository == [data |-> EmptyMap, nextID |-> 1]

\* (A variant that loads the samples and leaves the counter at 1.)
NewListingRepositoryCounterKept == [data |-> addSampleData(1, EmptyMap, 1).data, nextID |-> 1]
\* NewListingRepository: an empty map, nextID 1, then addSampleData.
NewListingRepository == addSampleData(1, EmptyMap, 1)

NewRepository(kind) ==
    IF kind = "example" THEN NewExampleRepository ELSE NewListingRepository

\* The counter right after construction, and the identities the callers ask
\* for: those Create can assign.
FirstID(kind) == NewRepository(kind).nextID
IdInputs == FirstID(repo)..(FirstID(repo) + MaxCreates - 1)

\* The repository r right after construction, and n goroutines that have not
\* called it yet.
Start(r, n) ==
    /\ heap = EmptyMap
    /\ data = r.data
    /\ ref = [p \in 1..n |-> Nil]
    /\ call = [p \in 1..n |-> NoCall]
    /\ nextID = r.nextID
    /\ mu = [w |-> Nil, r |-> {}]
    /\ now = 1
    /\ pc = [p \in 1..n |-> "idle"]

\* The step's new heap and pointers, renamed.
Commit(h, d, rf, cl) ==
    \E hv \in {h}, dv \in {d}, rv \in {rf}, cv \in {cl} :
        \E s \in {Renamed(hv, dv, rv, cv)} :
            heap' = s.heap /\ data' = s.data /\ ref' = s.ref /\ call' = s.call

Init ==
    /\ repo \in {"example", "listing"}
    /\ Start(NewRepository(repo), 1)
    /\ assigned = <<>>
    /\ created = [on |-> FALSE, of |-> EmptyMap]
    /\ deleted = {}

\* ------------------------------------------------------------ the callers
\* What a goroutine does between repository calls.

\* The caller assigns to a field of the record it holds, outside any
\* repository call (listing.PostTown = "Manchester" in the concurrency test):
\* to the email of an entity, to the city of a listing.
WriteField(p) ==
    /\ pc[p] = "idle"
    /\ ref[p] # Nil
    /\ \E rec \in IF repo = "example"
                   THEN {[At(heap, ref[p]) EXCEPT !.Email = email] : email \in Emails}
                   ELSE {[At(heap, ref[p]) EXCEPT !.City = city] : city \in Cities} :
         /\ rec # At(heap, ref[p])
         /\ Commit(Store(heap, ref[p], rec), data, ref, call)
    /\ UNCHANGED <<repo, nextID, mu, now, pc, assigned, created, deleted>>

\* A goroutine enters an operation: the call is made with the heap h (which
\* holds the record passed, if any), the lock not yet taken.
Invoke(p, op, arg, h) ==
    /\ pc[p] = "idle"
    /\ pc' = [pc EXCEPT ![p] = "lock"]
    /\ Commit(h, data, ref,
              [call EXCEPT ![p] = [NoCall EXCEPT !.op = op, !.arg = arg,
                                       !.given = IF op \in {"Create", "Update"}
                                                 THEN At(h, arg) ELSE <<>>]])
    /\ UNCHANGED <<repo, nextID, mu, now, assigned, created, deleted>>

\* The records a caller builds for a call: &models.ExampleModel{ID, Name, Email}
\* as service.CreateExample (ID zero) and service.UpdateExample do, and
\* &Listing{...} as the repository tests do.
NewRecords(ids) ==
    IF repo = "example"
    THEN {ExampleModel(id, name, email) : id \in ids, name \in Names, email \in Emails}
    ELSE {[l EXCEPT !.ID = id] : id \in ids, l \in ListingInputs}

\* The valid ones among them, all with the same name.
ValidRecords(ids) ==
    IF repo = "example"
    THEN {ExampleModel(id, "n", email) : id \in ids, email \in Emails \ {""}}
    ELSE {[ValidListing EXCEPT !.ID = id] : id \in ids}

\* Create calls that could still succeed within MaxCreates.
CreatesInFlight == Cardinality({q \in Procs : call[q].op = "Create"})
CanCreate == nextID + CreatesInFlight < FirstID(repo) + MaxCreates

\* repo.Create(ctx, &record) with a record built for the call.
CallCreate(p, recs) ==
    /\ CanCreate
    /\ \E rec \in recs :
         Invoke(p, "Create", NewAddr(heap), Store(heap, NewAddr(heap), rec))
\* repo.Create(ctx, held) with the record the caller already holds.
CallCreateHeld(p) ==
    /\ CanCreate
    /\ ref[p] # Nil
    /\ Invoke(p, "Create", ref[p], heap)
CallGetByID(p, ids) == \E id \in ids : Invoke(p, "GetByID", id, heap)
CallGetAll(p) == Invoke(p, "GetAll", 0, heap)
\* repo.Update(ctx, &record) with a record built for the call.
CallUpdate(p, recs) ==
    \E rec \in recs :
        Invoke(p, "Update", NewAddr(heap), Store(heap, NewAddr(heap), rec))
\* repo.Update(ctx, held) with the record the caller already holds.
CallUpdateHeld(p) == ref[p] # Nil /\ Invoke(p, "Update", ref[p], heap)
CallDelete(p, ids) == \E id \in ids : Invoke(p, "Delete", id, heap)

\* ---------------------------------------------------------- sync.RWMutex
\* Lock succeeds when nobody holds the mutex; RLock when no writer holds it.
\* (Variants that never wait, for comparison.)
CanLockAlways(m) == TRUE
CanLock(m) == m.w = Nil /\ m.r = {}
CanRLockAlways(m) == TRUE
CanRLock(m) == m.w = Nil

\* The first step of each operation's body.
FirstStep(op) ==
    CASE op = "Create" -> "validate"
      [] op = "Update" -> "validate"
      [] op = "Delete" -> "delete"
      [] OTHER -> "read"

\* r.mu.Lock() of Create, Update and Delete.
Lock(p) ==
    /\ pc[p] = "lock"
    /\ call[p].op \in MutationOps
    /\ CanLock(mu)
    /\ mu' = [mu EXCEPT !.w = p]
    /\ pc' = [pc EXCEPT ![p] = FirstStep(call[p].op)]
    /\ UNCHANGED <<repo, heap, data, nextID, now, call, ref, assigned, created, deleted>>

\* (A variant that enters while a writer holds the mutex.)
RLockNoWait(p) ==
    /\ pc[p] = "lock"
    /\ call[p].op \notin MutationOps
    /\ mu' = [mu EXCEPT !.r = @ \cup {p}]
    /\ pc' = [pc EXCEPT ![p] = FirstStep(call[p].op)]
    /\ UNCHANGED <<repo, heap, data, nextID, now, call, ref, assigned, created, deleted>>
\* r.mu.RLock() of GetByID, GetAll and the filters.
RLock(p) ==
    /\ pc[p] = "lock"
    /\ call[p].op \notin MutationOps
    /\ CanRLock(mu)
    /\ mu' = [mu EXCEPT !.r = @ \cup {p}]
    /\ pc' = [pc EXCEPT ![p] = FirstStep(call[p].op)]
    /\ UNCHANGED <<repo, heap, data, nextID, now, call, ref, assigned, created, deleted>>

\* The pointer a caller keeps from a finished call: the record it passed to a
\* successful Create or Update, one of the stored records a read handed out
\* (ListingRepositoryImpl.GetByID and GetAll return the stored pointers), or
\* what it held before.  A copy that a read returned is a record of the
\* caller's own, like the records it builds for a call.
Kept(p) ==
    IF call[p].err # NoErr THEN {ref[p]}
    ELSE IF call[p].op \in {"Create", "Update"} THEN {ref[p], call[p].arg}
    ELSE {call[p].res[k] : k \in {x \in DOMAIN call[p].res \cap IdInputs :
                                     call[p].res[x] \in Range(data)}}
         \cup {ref[p]}

\* The deferred r.mu.Unlock() / r.mu.RUnlock() and the return to the caller.
Return(p, kept) ==
    /\ pc[p] = "unlock"
    /\ mu' = IF call[p].op \in MutationOps
             THEN [mu EXCEPT !.w = Nil]
             ELSE [mu EXCEPT !.r = @ \ {p}]
    /\ pc' = [pc EXCEPT ![p] = "idle"]
    /\ \E a \in kept :
         Commit(heap, data, [ref EXCEPT ![p] = a], [call EXCEPT ![p] = NoCall])
    /\ UNCHANGED <<repo, nextID, now, assigned, created, deleted>>

\* ------------------------------------------------- ExampleRepositoryImpl
\* Steps of a body end either at the next step or, with an error, at "unlock".
Goto(p, step) == pc' = [pc EXCEPT ![p] = step]
Fail(p, err) ==
    /\ pc' = [pc EXCEPT ![p] = "unlock"]
    /\ call' = [call EXCEPT ![p].err = err]

InBody(p, kind, op, step) == repo = kind /\ call[p].op = op /\ pc[p] = step

\* (A variant of the loop without the id != example.ID test.)
EmailExistsAnywhere(h, d, email, skip) ==
    \E id \in DOMAIN d : At(h, d[id]).Email = email
\* Update's loop: some record stored under an identity other than `skip` has
\* this email.
EmailExists(h, d, email, skip) ==
    \E id \in DOMAIN d : id # skip /\ At(h, d[id]).Email = email

\* The required-field checks shared by Create and Update.
ExampleRequired(example) ==
    IF example.Name = "" THEN "name is required"
    ELSE IF example.Email = "" THEN "email is required"
    ELSE NoErr

\* (A variant whose loop compares the emails without regard to letter case.)
ExampleCreateCheckFolded(h, d, example) ==
    LET Lower(s) == IF s = "A" THEN "a" ELSE s IN
    IF ExampleRequired(example) # NoErr THEN ExampleRequired(example)
    ELSE IF \E id \in DOMAIN d : Lower(At(h, d[id]).Email) = Lower(example.Email)
         THEN "email already exists"
    ELSE NoErr
\* Create's checks, in order: name, email, then the loop over r.data.
ExampleCreateCheck(h, d, example) ==
    IF ExampleRequired(example) # NoErr THEN ExampleRequired(example)
    ELSE IF \E id \in DOMAIN d : At(h, d[id]).Email = example.Email
         THEN "email already exists"
    ELSE NoErr

\* (A variant that runs the loop over r.data before it looks the identity up.)
ExampleUpdateCheckLoopFirst(h, d, example) ==
    IF ExampleRequired(example) # NoErr THEN ExampleRequired(example)
    ELSE IF EmailExists(h, d, example.Email, example.ID) THEN "email already exists"
    ELSE IF example.ID \notin DOMAIN d THEN "not found"
    ELSE NoErr
\* Update's checks, in order: name, email, the identity, then the loop.
ExampleUpdateCheck(h, d, example) ==
    IF ExampleRequired(example) # NoErr THEN ExampleRequired(example)
    ELSE IF example.ID \notin DOMAIN d THEN "not found"
    ELSE IF EmailExists(h, d, example.Email, example.ID) THEN "email already exists"
    ELSE NoErr

\* (A variant in which a rejected Create uses up an identity.)
ExampleCreateValidateBurns(p) ==
    /\ InBody(p, "example", "Create", "validate")
    /\ LET err == ExampleCreateCheck(heap, data, At(heap, call[p].arg)) IN
       IF err = NoErr
       THEN Goto(p, "assign") /\ UNCHANGED <<call, nextID>>
       ELSE Fail(p, err) /\ nextID' = nextID + 1
    /\ UNCHANGED <<repo, heap, data, mu, now, ref, assigned, created, deleted>>
\* (A variant that assigns the identity before it validates.)
ExampleCreateValidateAssignsFirst(p) ==
    /\ InBody(p, "example", "Create", "validate")
    /\ heap' = Store(heap, call[p].arg, [At(heap, call[p].arg) EXCEPT !.ID = nextID])
    /\ LET err == ExampleCreateCheck(heap, data, At(heap, call[p].arg)) IN
       IF err = NoErr THEN Goto(p, "assign") /\ UNCHANGED call ELSE Fail(p, err)
    /\ UNCHANGED <<repo, data, nextID, mu, now, ref, assigned, created, deleted>>
ExampleCreateValidate(p) ==
    /\ InBody(p, "example", "Create", "validate")
    /\ LET err == ExampleCreateCheck(heap, data, At(heap, call[p].arg)) IN
       IF err = NoErr THEN Goto(p, "assign") /\ UNCHANGED call ELSE Fail(p, err)
    /\ UNCHANGED <<repo, heap, data, nextID, mu, now, ref, assigned, created, deleted>>

\* example.ID = r.nextID
ExampleCreateAssign(p) ==
    /\ InBody(p, "example", "Create", "assign")
    /\ heap' = Store(heap, call[p].arg, [At(heap, call[p].arg) EXCEPT !.ID = nextID])
    /\ assigned' = Append(assigned, nextID)
    /\ Goto(p, "stamp")
    /\ UNCHANGED <<repo, data, nextID, mu, now, call, ref, created, deleted>>

\* now := time.Now().Format(time.RFC3339); example.CreatedAt = now; example.UpdatedAt = now
ExampleCreateStamp(p) ==
    /\ InBody(p, "example", "Create", "stamp")
    /\ \E t \in now..MaxTime :
         /\ now' = t
         /\ heap' = Store(heap, call[p].arg,
                          [At(heap, call[p].arg) EXCEPT !.CreatedAt = RFC3339(t),
                                                        !.UpdatedAt = RFC3339(t)])
    /\ Goto(p, "store")
    /\ UNCHANGED <<repo, data, nextID, mu, call, ref, assigned, created, deleted>>

\* r.data[example.ID] = example
ExampleCreateStore(p) ==
    /\ InBody(p, "example", "Create", "store")
    /\ LET id == At(heap, call[p].arg).ID IN
         /\ Commit(heap, Put(data, id, call[p].arg), ref, call)
         /\ created' = Track(created, id, call[p].given)
    /\ Goto(p, "incr")
    /\ UNCHANGED <<repo, nextID, mu, now, assigned, deleted>>

\* (A variant that leaves the counter where it was.)
ExampleCreateIncrStuck(p) ==
    /\ InBody(p, "example", "Create", "incr")
    /\ Goto(p, "unlock")
    /\ UNCHANGED <<repo, heap, data, nextID, mu, now, call, ref, assigned, created, deleted>>
\* r.nextID++
ExampleCreateIncr(p) ==
    /\ InBody(p, "example", "Create", "incr")
    /\ nextID' = nextID + 1
    /\ Goto(p, "unlock")
    /\ UNCHANGED <<repo, heap, data, mu, now, call, ref, assigned, created, deleted>>

\* The copy GetByID and GetAll build: a new ExampleModel, field by field.
CopyExample(example) ==
    [ID |-> example.ID, Name |-> example.Name, Email |-> example.Email,
     CreatedAt |-> example.CreatedAt, UpdatedAt |-> example.UpdatedAt]

\* One copy per stored record, each at a fresh address: the heap with the
\* copies, and identity -> address of the copy.
RECURSIVE CopyAll(_, _, _, _)
CopyAll(ids, h, d, res) ==
    IF ids = {} THEN [heap |-> h, res |-> res]
    ELSE LET id == CHOOSE x \in ids : \A y \in ids : x <= y
             a == NewAddr(h)
         IN  CopyAll(ids \ {id}, Store(h, a, CopyExample(At(h, d[id]))), d, Put(res, id, a))

\* (A variant that returns the stored pointer, not a copy.)
ExampleGetByIDShared(p) ==
    /\ InBody(p, "example", "GetByID", "read")
    /\ LET id == call[p].arg IN
       IF id \notin DOMAIN data
       THEN Fail(p, "not found") /\ UNCHANGED <<heap, data, ref>>
       ELSE /\ Commit(heap, data, ref, [call EXCEPT ![p].res = Put(EmptyMap, id, data[id])])
            /\ Goto(p, "unlock")
    /\ UNCHANGED <<repo, nextID, mu, now, assigned, created, deleted>>
ExampleGetByID(p) ==
    /\ InBody(p, "example", "GetByID", "read")
    /\ LET id == call[p].arg IN
       IF id \notin DOMAIN data
       THEN Fail(p, "not found") /\ UNCHANGED <<heap, data, ref>>
       ELSE LET a == NewAddr(heap) IN
            /\ Commit(Store(heap, a, CopyExample(At(heap, data[id]))), data, ref,
                      [call EXCEPT ![p].res = Put(EmptyMap, id, a)])
            /\ Goto(p, "unlock")
    /\ UNCHANGED <<repo, nextID, mu, now, assigned, created, deleted>>

ExampleGetAll(p) ==
    /\ InBody(p, "example", "GetAll", "read")
    /\ LET c == CopyAll(DOMAIN data, heap, data, EmptyMap) IN
         Commit(c.heap, data, ref, [call EXCEPT ![p].res = c.res])
    /\ Goto(p, "unlock")
    /\ UNCHANGED <<repo, nextID, mu, now, assigned, created, deleted>>

\* (A variant that replaces the stored record before the loop over r.data.)
ExampleUpdateValidateStoresFirst(p) ==
    /\ InBody(p, "example", "Update", "validate")
    /\ LET example == At(heap, call[p].arg)
           err == ExampleUpdateCheck(heap, data, example)
       IN  IF err = NoErr
           THEN /\ Goto(p, "stamp")
                /\ call' = [call EXCEPT ![p].existing = data[example.ID]]
                /\ UNCHANGED <<heap, data, ref>>
           ELSE /\ Goto(p, "unlock")
                /\ Commit(heap,
                          IF err = "email already exists"
                          THEN Put(data, example.ID, call[p].arg) ELSE data,
                          ref, [call EXCEPT ![p].err = err])
    /\ UNCHANGED <<repo, nextID, mu, now, assigned, created, deleted>>
ExampleUpdateValidate(p) ==
    /\ InBody(p, "example", "Update", "validate")
    /\ LET example == At(heap, call[p].arg)
           err == ExampleUpdateCheck(heap, data, example)
       IN  IF err = NoErr
           THEN /\ Goto(p, "stamp")
                /\ call' = [call EXCEPT ![p].existing = data[example.ID]]
           ELSE Fail(p, err)
    /\ UNCHANGED <<repo, heap, data, nextID, mu, now, ref, assigned, created, deleted>>

\* (A variant that stamps both timestamps with the current time.)
ExampleUpdateStampBoth(p) ==
    /\ InBody(p, "example", "Update", "stamp")
    /\ \E t \in now..MaxTime :
         /\ now' = t
         /\ heap' = Store(heap, call[p].arg,
                          [At(heap, call[p].arg) EXCEPT !.CreatedAt = RFC3339(t),
                                                        !.UpdatedAt = RFC3339(t)])
    /\ Goto(p, "store")
    /\ UNCHANGED <<repo, data, nextID, mu, call, ref, assigned, created, deleted>>
\* example.CreatedAt = existing.CreatedAt
\* example.UpdatedAt = time.Now().Format(time.RFC3339)
ExampleUpdateStamp(p) ==
    /\ InBody(p, "example", "Update", "stamp")
    /\ \E t \in now..MaxTime :
         /\ now' = t
         /\ heap' = Store(heap, call[p].arg,
                          [At(heap, call[p].arg) EXCEPT
                               !.CreatedAt = At(heap, call[p].existing).CreatedAt,
                               !.UpdatedAt = RFC3339(t)])
    /\ Goto(p, "store")
    /\ UNCHANGED <<repo, data, nextID, mu, call, ref, assigned, created, deleted>>

\* r.data[example.ID] = example
ExampleUpdateStore(p) ==
    /\ InBody(p, "example", "Update", "store")
    /\ LET id == At(heap, call[p].arg).ID IN
         /\ Commit(heap, Put(data, id, call[p].arg), ref, call)
         /\ created' = Untrack(created, id)
    /\ Goto(p, "unlock")
    /\ UNCHANGED <<repo, nextID, mu, now, assigned, deleted>>

\* (A variant that reports success and leaves the record in r.data.)
ExampleDeleteKeepsRecord(p) ==
    /\ InBody(p, "example", "Delete", "delete")
    /\ LET id == call[p].arg IN
       IF id \notin DOMAIN data
       THEN Fail(p, "not found") /\ UNCHANGED <<heap, data, ref, created, deleted>>
       ELSE /\ Commit(heap, data, ref, [call EXCEPT ![p].given = At(heap, data[id])])
            /\ created' = Untrack(created, id)
            /\ deleted' = deleted \cup {id}
            /\ Goto(p, "unlock")
    /\ UNCHANGED <<repo, nextID, mu, now, assigned>>
ExampleDelete(p) ==
    /\ InBody(p, "example", "Delete", "delete")
    /\ LET id == call[p].arg IN
       IF id \notin DOMAIN data
       THEN Fail(p, "not found") /\ UNCHANGED <<heap, data, ref, created, deleted>>
       ELSE /\ Commit(heap, Remove(data, id), ref,
                      [call EXCEPT ![p].given = At(heap, data[id])])
            /\ created' = Untrack(created, id)
            /\ deleted' = deleted \cup {id}
            /\ Goto(p, "unlock")
    /\ UNCHANGED <<repo, nextID, mu, now, assigned>>

\* ------------------------------------------------- ListingRepositoryImpl
\* (A variant that checks the price before the other fields.)
ListingRequiredPriceFirst(listing) ==
    IF listing.PriceInCents <= 0 THEN "price must be greater than 0"
    ELSE IF listing.City = "" THEN "city is required"
    ELSE IF listing.ShortenedPostcode = "" THEN "shortened postcode is required"
    ELSE IF listing.Region = "" THEN "region is required"
    ELSE IF listing.PropertyType = "" THEN "property type is required"
    ELSE NoErr
\* The required-field checks of Create and Update, in source order.
ListingRequired(listing) ==
    IF listing.City = "" THEN "city is required"
    ELSE IF listing.ShortenedPostcode = "" THEN "shortened postcode is required"
    ELSE IF listing.Region = "" THEN "region is required"
    ELSE IF listing.PropertyType = "" THEN "property type is required"
    ELSE IF listing.PriceInCents <= 0 THEN "price must be greater than 0"
    ELSE NoErr

\* Update's checks, in order: the required fields, then the identity.
ListingUpdateCheck(d, listing) ==
    IF ListingRequired(listing) # NoErr THEN ListingRequired(listing)
    ELSE IF listing.ID \notin DOMAIN d THEN "not found"
    ELSE NoErr

ListingCreateValidate(p) ==
    /\ InBody(p, "listing", "Create", "validate")
    /\ LET err == ListingRequired(At(heap, call[p].arg)) IN
       IF err = NoErr THEN Goto(p, "assign") /\ UNCHANGED call ELSE Fail(p, err)
    /\ UNCHANGED <<repo, heap, data, nextID, mu, now, ref, assigned, created, deleted>>

\* listing.ID = r.nextID
ListingCreateAssign(p) ==
    /\ InBody(p, "listing", "Create", "assign")
    /\ heap' = Store(heap, call[p].arg, [At(heap, call[p].arg) EXCEPT !.ID = nextID])
    /\ assigned' = Append(assigned, nextID)
    /\ Goto(p, "visible")
    /\ UNCHANGED <<repo, data, nextID, mu, now, call, ref, created, deleted>>

\* (A variant that sets the field whether or not the caller supplied one.)
ListingCreateVisibleAlways(p) ==
    /\ InBody(p, "listing", "Create", "visible")
    /\ \E t \in now..MaxTime :
         /\ now' = t
         /\ heap' = Store(heap, call[p].arg,
                          [At(heap, call[p].arg) EXCEPT
                               !.MadeVisibleAt = stringPtr(RFC3339(t))])
    /\ Goto(p, "store")
    /\ UNCHANGED <<repo, data, nextID, mu, call, ref, assigned, created, deleted>>
\* now := time.Now().Format(time.RFC3339)
\* if listing.MadeVisibleAt == nil { listing.MadeVisibleAt = &now }
ListingCreateVisible(p) ==
    /\ InBody(p, "listing", "Create", "visible")
    /\ \E t \in now..MaxTime :
         /\ now' = t
         /\ heap' = IF At(heap, call[p].arg).MadeVisibleAt = NilPtr
                    THEN Store(heap, call[p].arg,
                               [At(heap, call[p].arg) EXCEPT
                                    !.MadeVisibleAt = stringPtr(RFC3339(t))])
                    ELSE heap
    /\ Goto(p, "store")
    /\ UNCHANGED <<repo, data, nextID, mu, call, ref, assigned, created, deleted>>

\* r.data[listing.ID] = listing
ListingCreateStore(p) ==
    /\ InBody(p, "listing", "Create", "store")
    /\ LET id == At(heap, call[p].arg).ID IN
         /\ Commit(heap, Put(data, id, call[p].arg), ref, call)
         /\ created' = Track(created, id, call[p].given)
    /\ Goto(p, "incr")
    /\ UNCHANGED <<repo, nextID, mu, now, assigned, deleted>>

\* r.nextID++
ListingCreateIncr(p) ==
    /\ InBody(p, "listing", "Create", "incr")
    /\ nextID' = nextID + 1
    /\ Goto(p, "unlock")
    /\ UNCHANGED <<repo, heap, data, mu, now, call, ref, assigned, created, deleted>>

\* return listing, nil: the stored pointer itself.
ListingGetByID(p) ==
    /\ InBody(p, "listing", "GetByID", "read")
    /\ LET id == call[p].arg IN
       IF id \notin DOMAIN data
       THEN Fail(p, "not found")
       ELSE /\ call' = [call EXCEPT ![p].res = Put(EmptyMap, id, data[id])]
            /\ Goto(p, "unlock")
    /\ UNCHANGED <<repo, heap, data, nextID, mu, now, ref, assigned, created, deleted>>

\* listings = append(listings, listing) for every entry of r.data.
ListingGetAll(p) ==
    /\ InBody(p, "listing", "GetAll", "read")
    /\ call' = [call EXCEPT ![p].res = data]
    /\ Goto(p, "unlock")
    /\ UNCHANGED <<repo, heap, data, nextID, mu, now, ref, assigned, created, deleted>>

ListingUpdateValidate(p) ==
    /\ InBody(p, "listing", "Update", "validate")
    /\ LET listing == At(heap, call[p].arg)
           err == ListingUpdateCheck(data, listing)
       IN  IF err = NoErr
           THEN /\ Goto(p, "preserve")
                /\ call' = [call EXCEPT ![p].existing = data[listing.ID]]
           ELSE Fail(p, err)
    /\ UNCHANGED <<repo, heap, data, nextID, mu, now, ref, assigned, created, deleted>>

\* (A variant that stores the request as it came.)
ListingUpdateAsSupplied(p) ==
    /\ InBody(p, "listing", "Update", "preserve")
    /\ Goto(p, "store")
    /\ UNCHANGED <<repo, heap, data, nextID, mu, now, call, ref, assigned, created, deleted>>
\* if existing.MadeVisibleAt != nil && listing.MadeVisibleAt == nil {
\*     listing.MadeVisibleAt = existing.MadeVisibleAt }
ListingUpdatePreserve(p) ==
    /\ InBody(p, "listing", "Update", "preserve")
    /\ heap' = IF /\ At(heap, call[p].existing).MadeVisibleAt # NilPtr
                  /\ At(heap, call[p].arg).MadeVisibleAt = NilPtr
               THEN Store(heap, call[p].arg,
                          [At(heap, call[p].arg) EXCEPT
                               !.MadeVisibleAt = At(heap, call[p].existing).MadeVisibleAt])
               ELSE heap
    /\ Goto(p, "store")
    /\ UNCHANGED <<repo, data, nextID, mu, now, call, ref, assigned, created, deleted>>

\* r.data[listing.ID] = listing
ListingUpdateStore(p) ==
    /\ InBody(p, "listing", "Update", "store")
    /\ LET id == At(heap, call[p].arg).ID IN
         /\ Commit(heap, Put(data, id, call[p].arg), ref, call)
         /\ created' = Untrack(created, id)
    /\ Goto(p, "unlock")
    /\ UNCHANGED <<repo, nextID, mu, now, assigned, deleted>>

\* (A variant that hands the deleted identity back to the counter.)
ListingDeleteRewinds(p) ==
    /\ InBody(p, "listing", "Delete", "delete")
    /\ LET id == call[p].arg IN
       IF id \notin DOMAIN data
       THEN Fail(p, "not found") /\ UNCHANGED <<heap, data, ref, nextID, created, deleted>>
       ELSE /\ Commit(heap, Remove(data, id), ref,
                      [call EXCEPT ![p].given = At(heap, data[id])])
            /\ nextID' = id
            /\ created' = Untrack(created, id)
            /\ deleted' = deleted \cup {id}
            /\ Goto(p, "unlock")
    /\ UNCHANGED <<repo, mu, now, assigned>>
ListingDelete(p) ==
    /\ InBody(p, "listing", "Delete", "delete")
    /\ LET id == call[p].arg IN
       IF id \notin DOMAIN data
       THEN Fail(p, "not found") /\ UNCHANGED <<heap, data, ref, created, deleted>>
       ELSE /\ Commit(heap, Remove(data, id), ref,
                      [call EXCEPT ![p].given = At(heap, data[id])])
            /\ created' = Untrack(created, id)
            /\ deleted' = deleted \cup {id}
            /\ Goto(p, "unlock")
    /\ UNCHANGED <<repo, nextID, mu, now, assigned>>

\* ------------------------------------------------------------------- Spec
\* One step of a call in progress: the lock or a step of the body.
Step(p) ==
    \/ Lock(p)
    \/ RLock(p)
    \/ ExampleCreateValidate(p)
    \/ ExampleCreateAssign(p)
    \/ ExampleCreateStamp(p)
    \/ ExampleCreateStore(p)
    \/ ExampleCreateIncr(p)
    \/ ExampleGetByID(p)
    \/ ExampleGetAll(p)
    \/ ExampleUpdateValidate(p)
    \/ ExampleUpdateStamp(p)
    \/ ExampleUpdateStore(p)
    \/ ExampleDelete(p)
    \/ ListingCreateValidate(p)
    \/ ListingCreateAssign(p)
    \/ ListingCreateVisible(p)
    \/ ListingCreateStore(p)
    \/ ListingCreateIncr(p)
    \/ ListingGetByID(p)
    \/ ListingGetAll(p)
    \/ ListingUpdateValidate(p)
    \/ ListingUpdatePreserve(p)
    \/ ListingUpdateStore(p)
    \/ ListingDelete(p)

\* A single caller that makes one call after another, with every input, keeps
\* the records it passed or was handed, writes to them and passes them again.
Next ==
    \E p \in {1} :
        \/ WriteField(p)
        \/ CallCreate(p, NewRecords({0}))
        \/ CallCreateHeld(p)
        \/ CallGetByID(p, IdInputs)
        \/ CallGetAll(p)
        \/ CallUpdate(p, NewRecords(IdInputs))
        \/ CallUpdateHeld(p)
        \/ CallDelete(p, IdInputs)
        \/ Return(p, Kept(p))
        \/ Step(p)

Spec == Init /\ [][Next]_vars

\* NumProcs goroutines that call the repository concurrently, each with
\* records of its own.
InitConcurrent ==
    /\ repo \in {"example", "listing"}
    /\ Start(NewRepository(repo), NumProcs)
    /\ assigned = <<>>
    /\ created = [on |-> FALSE, of |-> EmptyMap]
    /\ deleted = {}

NextConcurrent ==
    \E p \in 1..NumProcs :
        \/ CallCreate(p, ValidRecords({0}))
        \/ CallGetByID(p, IdInputs)
        \/ CallGetAll(p)
        \/ CallUpdate(p, ValidRecords(IdInputs))
        \/ CallDelete(p, IdInputs)
        \/ Return(p, {Nil})
        \/ Step(p)

SpecConcurrent == InitConcurrent /\ [][NextConcurrent]_vars

\* A single caller that passes valid records, keeps them and passes them
\* again, and writes to none of them; with the history `created` kept.
InitTracked ==
    /\ repo \in {"example", "listing"}
    /\ Start(NewRepository(repo), 1)
    /\ assigned = <<>>
    /\ created = [on |-> TRUE, of |-> EmptyMap]
    /\ deleted = {}

NextTracked ==
    \E p \in {1} :
        \/ CallCreate(p, ValidRecords({0}))
        \/ CallCreateHeld(p)
        \/ CallGetByID(p, IdInputs)
        \/ CallGetAll(p)
        \/ CallUpdate(p, ValidRecords(IdInputs))
        \/ CallUpdateHeld(p)
        \/ CallDelete(p, IdInputs)
        \/ Return(p, Kept(p))
        \/ Step(p)

SpecTracked == InitTracked /\ [][NextTracked]_vars

\* NumCallers goroutines that each create one record of their own on an empty
\* repository (NewExampleRepository; the ListingRepositoryImpl literal of
\* TestListingRepository_Concurrency), and a GetAll once all have returned.
EmptyRepository == [data |-> EmptyMap, nextID |-> 1]

InitCreates ==
    /\ repo \in {"example", "listing"}
    /\ Start(EmptyRepository, NumCallers)
    /\ assigned = <<>>
    /\ created = [on |-> FALSE, of |-> EmptyMap]
    /\ deleted = {}

\* The record goroutine p creates: valid, and in conflict with no other.
OwnRecord(p) ==
    IF repo = "example" THEN ExampleModel(0, "n", "user" \o ToString(p)) ELSE ValidListing

CallCreateOwn(p) ==
    /\ ref[p] = Nil
    /\ Invoke(p, "Create", NewAddr(heap), Store(heap, NewAddr(heap), OwnRecord(p)))

\* for i := 0; i < 10; i++ { <-done }; repo.GetAll(ctx)
CallGetAllAfter(p) ==
    /\ \A q \in Procs : pc[q] = "idle" /\ ref[q] # Nil
    /\ CallGetAll(p)

\* The goroutine keeps the record it created.
Own(p) == IF call[p].op = "Create" THEN {call[p].arg} ELSE {ref[p]}

NextCreates ==
    \E p \in 1..NumCallers :
        \/ CallCreateOwn(p)
        \/ CallGetAllAfter(p)
        \/ Lock(p)
        \/ RLock(p)
        \/ Return(p, Own(p))
        \/ ExampleCreateValidate(p)
        \/ ExampleCreateAssign(p)
        \/ ExampleCreateStamp(p)
        \/ ExampleCreateStore(p)
        \/ ExampleCreateIncr(p)
        \/ ExampleGetAll(p)
        \/ ListingCreateValidate(p)
        \/ ListingCreateAssign(p)
        \/ ListingCreateVisible(p)
        \/ ListingCreateStore(p)
        \/ ListingCreateIncr(p)
        \/ ListingGetAll(p)

SpecCreates == InitCreates /\ [][NextCreates]_vars

\* ------------------------------------------------------------- properties
\* Goroutine p is inside its critical section: past the lock, not yet past
\* the deferred unlock.
InCS(p) == pc[p] \notin {"idle", "lock"}

\* Goroutine p takes a step of the call it is in (or enters one).
Steps(p) == pc'[p] # pc[p]

\* The records a call returned, by identity.
Result(p) == [k \in DOMAIN call[p].res |-> At(heap, call[p].res[k])]

\* Some stored record has this email.
Held(email) == \E id \in DOMAIN data : At(heap, data[id]).Email = email

\* C1: the identities assigned by successful Create calls are strictly
\* increasing, so no identity is assigned twice, also not after a Delete.
IdentitiesIncrease ==
    \A i, j \in 1..Len(assigned) : i < j => assigned[i] < assigned[j]

\* A Create has just been assigned its identity after the record of an
\* earlier identity was deleted.
IdentityAfterDelete ==
    \E p \in Procs :
        /\ call[p].op = "Create"
        /\ pc[p] \in {"stamp", "visible"}
        /\ Len(assigned) = 2
        /\ assigned[1] \in deleted

\* C2: when NumCallers goroutines create valid records that conflict with no
\* other on an empty repository, no call returns an error, the identities of
\* the records created are pairwise distinct, and a GetAll after all calls
\* have returned yields exactly NumCallers records.
HasCreated(p) == ref[p] # Nil /\ call[p].op # "Create"
ConcurrentCreatesSucceed ==
    /\ \A p \in Procs : call[p].err = NoErr
    /\ \A p \in Procs : HasCreated(p) => At(heap, ref[p]).ID \in DOMAIN data
    /\ \A p, q \in Procs :
         (p # q /\ HasCreated(p) /\ HasCreated(q)) =>
             At(heap, ref[p]).ID # At(heap, ref[q]).ID
    /\ \A p \in Procs :
         (call[p].op = "GetAll" /\ pc[p] = "unlock") =>
             /\ Cardinality(DOMAIN call[p].res) = NumCallers
             /\ {Result(p)[k].ID : k \in DOMAIN call[p].res}
                    = {At(heap, ref[q]).ID : q \in Procs}

\* The GetAll after the creates has returned NumCallers records.
AllCreatedListed ==
    \E p \in Procs :
        /\ call[p].op = "GetAll"
        /\ pc[p] = "unlock"
        /\ Cardinality(DOMAIN call[p].res) = NumCallers
        /\ Cardinality({Result(p)[k].ID : k \in DOMAIN call[p].res}) = NumCallers

\* C3: in the entity repository no two stored records with different
\* identities have the same email.
EmailsUnique ==
    repo = "example" =>
        \A i, j \in DOMAIN data :
            i # j => At(heap, data[i]).Email # At(heap, data[j]).Email

\* C4: every step of a Create, Update or Delete call that returns an error
\* leaves the store (identities, field values, counter) as it was.  The error
\* is decided by the first step of the body; before it the call has only been
\* entered and has taken the lock; after it the call only returns.
FailedCallsKeepStore ==
    [][\A p \in Procs :
         (Steps(p) /\ (IF pc[p] = "idle" THEN call'[p].op ELSE call[p].op) \in MutationOps) =>
             /\ pc[p] \in {"idle", "lock"} => StoreView' = StoreView
             /\ (call[p].err = NoErr /\ call'[p].err # NoErr) =>
                    pc[p] = FirstStep(call[p].op) /\ StoreView' = StoreView
             /\ call[p].err # NoErr => StoreView' = StoreView]_vars

\* An Update of a stored record has failed on a duplicate email and is about
\* to return.
FailedMutation ==
    \E p \in Procs :
        /\ pc[p] = "unlock"
        /\ call[p].op = "Update"
        /\ call[p].err = "email already exists"
        /\ call[p].given.ID \in DOMAIN data

\* C5: no Create, Update or Delete is inside its critical section while
\* another operation is inside its own.
MutualExclusion ==
    \A p, q \in Procs :
        (p # q /\ InCS(p) /\ call[p].op \in MutationOps) => ~InCS(q)

\* Two read-only operations are inside their critical sections together.
TwoReaders ==
    \E p, q \in Procs :
        /\ p # q
        /\ InCS(p) /\ call[p].op \notin MutationOps
        /\ InCS(q) /\ call[q].op \notin MutationOps

\* C6: every operation takes effect at one point between its call and its
\* return.  A read takes its result in one step, at which no mutation is
\* under way; the result is the store's content at that step, every record
\* whole (stored under its own identity, timestamps set).  The store changes
\* only in steps of a mutation that holds the lock exclusively.
Whole(rec, id) ==
    /\ rec.ID = id
    /\ IF repo = "example"
       THEN rec.CreatedAt # "" /\ rec.UpdatedAt # ""
       ELSE id >= FirstID(repo) => rec.MadeVisibleAt # NilPtr
ReadsSeeWholeStore ==
    [][/\ \A p \in Procs :
            (pc[p] = "read" /\ pc'[p] = "unlock") =>
                /\ \A q \in Procs : ~(InCS(q) /\ call[q].op \in MutationOps)
                /\ StoreView' = StoreView
                /\ IF call[p].op = "GetAll"
                   THEN call'[p].err = NoErr /\ Result(p)' = StoreView.recs
                   ELSE IF call[p].arg \in DOMAIN data
                        THEN /\ call'[p].err = NoErr
                             /\ Result(p)' = Put(EmptyMap, call[p].arg,
                                                 StoreView.recs[call[p].arg])
                        ELSE call'[p].err = "not found" /\ Result(p)' = EmptyMap
                /\ \A k \in DOMAIN Result(p)' : Whole(Result(p)'[k], k)
       /\ StoreView' # StoreView =>
            \E p \in Procs :
                /\ Steps(p)
                /\ call[p].op \in MutationOps
                /\ mu = [w |-> p, r |-> {}]]_vars

\* A read has returned a record while a mutation called by another goroutine
\* waits for the lock.
ReadDuringMutation ==
    \E p, q \in Procs :
        /\ pc[p] = "unlock" /\ call[p].op = "GetByID" /\ call[p].err = NoErr
        /\ pc[q] = "lock" /\ call[q].op \in MutationOps

\* C7: a GetByID(id) made after Create assigned id, and before any Update or
\* Delete of id, succeeds and returns a record with identity id and the fields
\* supplied to that Create (entity: timestamps set as well).
Supplied(rec) ==
    IF repo = "example" THEN <<rec.Name, rec.Email>>
    ELSE <<rec.City, rec.ShortenedPostcode, rec.Region, rec.PropertyType,
           rec.Bedrooms, rec.Bathrooms, rec.PriceInCents>>
GetAfterCreate ==
    \A p \in Procs :
        (call[p].op = "GetByID" /\ pc[p] = "unlock" /\ call[p].arg \in DOMAIN created.of) =>
            /\ call[p].err = NoErr
            /\ call[p].arg \in DOMAIN call[p].res
            /\ LET rec == Result(p)[call[p].arg]
                   given == created.of[call[p].arg]
               IN  /\ rec.ID = call[p].arg
                   /\ Supplied(rec) = Supplied(given)
                   /\ repo = "example" => rec.CreatedAt # "" /\ rec.UpdatedAt # ""
                   /\ (repo = "listing" /\ given.MadeVisibleAt # NilPtr) =>
                          rec.MadeVisibleAt = given.MadeVisibleAt

\* C8 (its last clause): once Delete(id) has succeeded, id never appears
\* again in a GetAll result.
DeletedNeverListed ==
    \A p \in Procs :
        (call[p].op = "GetAll" /\ pc[p] = "unlock") =>
            \A k \in DOMAIN call[p].res : Result(p)[k].ID \notin deleted

\* The first step of an entity Create's body, and a successful entity Delete.
CreateChecked(p) == InBody(p, "example", "Create", "validate") /\ Steps(p)
DeleteDone(p) ==
    /\ InBody(p, "example", "Delete", "delete")
    /\ Steps(p)
    /\ call'[p].err = NoErr
\* Record id is the only stored record with its email.
OnlyHolder(id) ==
    \A other \in DOMAIN data \ {id} :
        At(heap, data[other]).Email # At(heap, data[id]).Email

\* C9 as stated: an entity Create with email e fails with the conflict error
\* whenever a stored record has e; and once the only record holding e has
\* been deleted, a Create with e and a non-empty name succeeds.
ConflictWheneverHeld ==
    [][\A p \in Procs :
         /\ (CreateChecked(p) /\ Held(At(heap, call[p].arg).Email)) =>
                call'[p].err = "email already exists"
         /\ (DeleteDone(p) /\ OnlyHolder(call[p].arg)) =>
                ExampleCreateCheck(heap', data',
                    ExampleModel(0, "n", At(heap, data[call[p].arg]).Email)) = NoErr]_vars

\* C9, amended: an entity Create with a non-empty name and a non-empty email
\* e fails with the conflict error whenever a stored record has e and
\* succeeds otherwise; and once the only record holding a non-empty e has
\* been deleted, a Create with e and a non-empty name succeeds.
ConflictWhenValidAndHeld ==
    [][\A p \in Procs :
         /\ CreateChecked(p) =>
                LET example == At(heap, call[p].arg) IN
                (example.Name # "" /\ example.Email # "") =>
                    call'[p].err = IF Held(example.Email)
                                   THEN "email already exists" ELSE NoErr
         /\ (DeleteDone(p) /\ OnlyHolder(call[p].arg)
                /\ At(heap, data[call[p].arg]).Email # "") =>
                ExampleCreateCheck(heap', data',
                    ExampleModel(0, "n", At(heap, data[call[p].arg]).Email)) = NoErr]_vars

\* A Delete has removed the only record that held a non-empty email, and
\* Create's checks now pass for that email.
EmailReleased ==
    \E p \in Procs :
        /\ repo = "example"
        /\ call[p].op = "Delete" /\ pc[p] = "unlock" /\ call[p].err = NoErr
        /\ call[p].given.Email # ""
        /\ ~Held(call[p].given.Email)
        /\ ExampleCreateCheck(heap, data, ExampleModel(0, "n", call[p].given.Email)) = NoErr

\* C10 as stated: an entity Create succeeds exactly when name and email are
\* non-empty and no stored record has the same email (compared exactly); it
\* fails with a validation error when name or email is empty and with the
\* conflict error when the email is held.
ValidationErrors == {"name is required", "email is required"}
CreateOutcomeAsStated ==
    [][\A p \in Procs :
         CreateChecked(p) =>
             LET example == At(heap, call[p].arg)
                 err == call'[p].err
             IN  /\ err = NoErr <=>
                        (example.Name # "" /\ example.Email # "" /\ ~Held(example.Email))
                 /\ (example.Name = "" \/ example.Email = "") => err \in ValidationErrors
                 /\ Held(example.Email) => err = "email already exists"]_vars

\* C10, amended: ... and with the conflict error when name and email are
\* non-empty and the email is held.
CreateOutcome ==
    [][\A p \in Procs :
         CreateChecked(p) =>
             LET example == At(heap, call[p].arg)
                 err == call'[p].err
             IN  /\ err = NoErr <=>
                        (example.Name # "" /\ example.Email # "" /\ ~Held(example.Email))
                 /\ (example.Name = "" \/ example.Email = "") => err \in ValidationErrors
                 /\ (example.Name # "" /\ example.Email # "" /\ Held(example.Email)) =>
                        err = "email already exists"]_vars

\* A Create with the email "A" has passed the checks while a stored record
\* has the email "a".
CaseSensitiveEmail ==
    \E p \in Procs :
        /\ repo = "example"
        /\ call[p].op = "Create" /\ pc[p] = "assign"
        /\ At(heap, call[p].arg).Email = "A"
        /\ Held("a")

\* The first step of an Update's body, in either repository.
UpdateChecked(p) == call[p].op = "Update" /\ pc[p] = "validate" /\ Steps(p)

\* The record's required fields are all present.
FieldsValid(rec) ==
    IF repo = "example"
    THEN rec.Name # "" /\ rec.Email # ""
    ELSE /\ rec.City # "" /\ rec.ShortenedPostcode # "" /\ rec.Region # ""
         /\ rec.PropertyType # "" /\ rec.PriceInCents > 0

\* C11 as stated: an Update of a record whose identity is not in the store
\* fails with the not-found error, whatever the record's other fields are.
NotFoundWhateverFields ==
    [][\A p \in Procs :
         (UpdateChecked(p) /\ At(heap, call[p].arg).ID \notin DOMAIN data) =>
             call'[p].err = "not found"]_vars

\* C11, amended: an Update of a record whose identity is not in the store
\* fails with the not-found error when the record's required fields are all
\* present (also when its email is held by a stored record), and with a
\* validation error, not the not-found error, when one of them is missing.
NotFoundWhenFieldsValid ==
    [][\A p \in Procs :
         (UpdateChecked(p) /\ At(heap, call[p].arg).ID \notin DOMAIN data) =>
             IF FieldsValid(At(heap, call[p].arg))
             THEN call'[p].err = "not found"
             ELSE call'[p].err \notin {NoErr, "not found", "email already exists"}]_vars

\* An entity Update of an identity that is not in the store, with an email a
\* stored record holds, has failed with the not-found error.
UpdateOfMissingIdentity ==
    \E p \in Procs :
        /\ repo = "example"
        /\ call[p].op = "Update" /\ pc[p] = "unlock"
        /\ call[p].err = "not found"
        /\ call[p].given.ID \notin DOMAIN data
        /\ Held(call[p].given.Email)

\* A stored record other than the one under identity id has this email.
OtherHolds(id, email) ==
    \E other \in DOMAIN data \ {id} : At(heap, data[other]).Email = email

\* C12 as stated: an entity Update of an existing record fails with the
\* conflict error exactly when a stored record with a different identity has
\* the new email, and succeeds otherwise.
UpdateConflictAsStated ==
    [][\A p \in Procs :
         (repo = "example" /\ UpdateChecked(p)
              /\ At(heap, call[p].arg).ID \in DOMAIN data) =>
             LET example == At(heap, call[p].arg) IN
             call'[p].err = IF OtherHolds(example.ID, example.Email)
                            THEN "email already exists" ELSE NoErr]_vars

\* C12, amended: an entity Update of an existing record with a non-empty name
\* and a non-empty email fails with the conflict error exactly when a stored
\* record with a different identity has the new email, and succeeds otherwise
\* (so an Update that keeps the record's own email succeeds); with an empty
\* name or email it fails with a validation error.
UpdateConflict ==
    [][\A p \in Procs :
         (repo = "example" /\ UpdateChecked(p)
              /\ At(heap, call[p].arg).ID \in DOMAIN data) =>
             LET example == At(heap, call[p].arg) IN
             IF example.Name # "" /\ example.Email # ""
             THEN call'[p].err = IF OtherHolds(example.ID, example.Email)
                                 THEN "email already exists" ELSE NoErr
             ELSE call'[p].err \in ValidationErrors]_vars

\* An Update with a record built for the call, carrying the email its
\* identity already has, has passed the checks while another record is stored.
UpdateKeepsOwnEmail ==
    \E p \in Procs :
        /\ repo = "example"
        /\ call[p].op = "Update" /\ pc[p] = "stamp"
        /\ call[p].arg # data[call[p].given.ID]
        /\ At(heap, data[call[p].given.ID]).Email = call[p].given.Email
        /\ Cardinality(DOMAIN data) = 2

\* The clock reading a timestamp string was formatted from (time.Parse).
Reading(s) == CHOOSE t \in 0..MaxTime : RFC3339(t) = s

\* C13: the step of a successful entity Update that replaces the stored
\* record leaves under its identity a record with the supplied name and
\* email, the creation timestamp the stored record had, and the time of the
\* update as update timestamp; no step of a repository call changes the
\* creation timestamp of an identity that stays in the store; and after every
\* step the update timestamp of every stored record is at or after its
\* creation timestamp (the clock never runs backwards).
UpdateKeepsCreation ==
    [][repo = "example" =>
         /\ \A p \in Procs :
              (InBody(p, "example", "Update", "store") /\ Steps(p)) =>
                  LET id == call[p].given.ID
                      rec == At(heap', data'[id])
                  IN  /\ rec.Name = call[p].given.Name
                      /\ rec.Email = call[p].given.Email
                      /\ rec.CreatedAt = At(heap, data[id]).CreatedAt
                      /\ rec.UpdatedAt = RFC3339(now)
         /\ \A id \in DOMAIN data \cap DOMAIN data' :
              At(heap', data'[id]).CreatedAt = At(heap, data[id]).CreatedAt
         /\ \A id \in DOMAIN data' :
              Reading(At(heap', data'[id]).UpdatedAt)
                  >= Reading(At(heap', data'[id]).CreatedAt)]_vars

\* An entity Update has succeeded at a later clock reading than the one its
\* record was created at.
UpdatedLater ==
    \E p \in Procs :
        /\ repo = "example"
        /\ call[p].op = "Update" /\ pc[p] = "unlock" /\ call[p].err = NoErr
        /\ LET rec == At(heap, data[call[p].given.ID]) IN
           Reading(rec.UpdatedAt) > Reading(rec.CreatedAt)

\* A listing Update is at step `step` with a request that came without a
\* "made visible at" value, for an identity whose stored value is non-null.
StickyCase(p, step) ==
    /\ InBody(p, "listing", "Update", step)
    /\ Steps(p)
    /\ call[p].given.MadeVisibleAt = NilPtr
    /\ At(heap, call[p].arg).ID \in DOMAIN data
    /\ At(heap, data[At(heap, call[p].arg).ID]).MadeVisibleAt # NilPtr
\* The step that replaces the stored listing keeps the stored "made visible
\* at" value and takes every other field from the request.
StickyStore(p) ==
    StickyCase(p, "store") =>
        LET id == call[p].given.ID IN
        At(heap', data'[id]) =
            [call[p].given EXCEPT !.MadeVisibleAt = At(heap, data[id]).MadeVisibleAt]

\* C14 as stated: a listing Update of an existing listing whose stored "made
\* visible at" is non-null, with a request whose "made visible at" is null,
\* succeeds, keeps the stored value and takes every other field from the
\* request.
StickyAsStated ==
    [][\A p \in Procs :
         /\ StickyCase(p, "validate") => call'[p].err = NoErr
         /\ StickyStore(p)]_vars

\* C14, amended: ... succeeds when the request's required fields pass
\* validation (and fails with the validation error, the store unchanged,
\* when they do not), keeps the stored value and takes every other field
\* from the request.
StickyVisibility ==
    [][\A p \in Procs :
         /\ StickyCase(p, "validate") =>
                IF FieldsValid(call[p].given)
                THEN call'[p].err = NoErr
                ELSE /\ call'[p].err \notin {NoErr, "not found"}
                     /\ StoreView' = StoreView
         /\ StickyStore(p)]_vars

\* The listing created with its own "made visible at" value has been updated
\* with a request that had none and other fields: the stored listing has the
\* request's fields and the value it was created with.
VisibilityKept ==
    \E p \in Procs :
        /\ repo = "listing"
        /\ call[p].op = "Update" /\ pc[p] = "unlock" /\ call[p].err = NoErr
        /\ call[p].given.MadeVisibleAt = NilPtr
        /\ At(heap, data[call[p].given.ID]) =
               [call[p].given EXCEPT !.MadeVisibleAt = VisibleListing.MadeVisibleAt]

\* C15: the step of a successful listing Create that stores the record stores
\* a non-null "made visible at" value: the current time when the record came
\* without one, the caller's value when it came with one.
CreateSetsVisibility ==
    [][\A p \in Procs :
         (InBody(p, "listing", "Create", "store") /\ Steps(p)) =>
             LET stored == At(heap', data'[At(heap, call[p].arg).ID]).MadeVisibleAt
                 supplied == call[p].given.MadeVisibleAt
             IN  /\ stored # NilPtr
                 /\ stored = IF supplied = NilPtr
                             THEN stringPtr(RFC3339(now)) ELSE supplied]_vars

\* A listing Create has stored the caller's own "made visible at" value at a
\* clock reading whose timestamp differs from it.
SuppliedVisibilityStored ==
    \E p \in Procs :
        /\ repo = "listing"
        /\ call[p].op = "Create" /\ pc[p] = "incr"
        /\ call[p].given.MadeVisibleAt = VisibleListing.MadeVisibleAt
        /\ At(heap, data[At(heap, call[p].arg).ID]).MadeVisibleAt
               = VisibleListing.MadeVisibleAt

\* ----------------------------------------------- listing field validation
\* A single caller that passes listings with every combination of present
\* and missing required fields to Create and Update.
Prices == {-1000, 0, 10000000}
ListingFields(ids) ==
    {Listing(id, city, spc, region, ptype, 2, 1, price, NilPtr) :
         id \in ids, city \in {"", "London"}, spc \in {"", "W1"},
         region \in {"", RegionSouthEast}, ptype \in {"", PropertyTypeApartment},
         price \in Prices}

InitValidation ==
    /\ repo = "listing"
    /\ Start(NewListingRepository, 1)
    /\ assigned = <<>>
    /\ created = [on |-> FALSE, of |-> EmptyMap]
    /\ deleted = {}

NextValidation ==
    \E p \in {1} :
        \/ CallCreate(p, ListingFields({0}))
        \/ CallUpdate(p, ListingFields(IdInputs))
        \/ Lock(p)
        \/ Return(p, {Nil})
        \/ ListingCreateValidate(p)
        \/ ListingCreateAssign(p)
        \/ ListingCreateVisible(p)
        \/ ListingCreateStore(p)
        \/ ListingCreateIncr(p)
        \/ ListingUpdateValidate(p)
        \/ ListingUpdatePreserve(p)
        \/ ListingUpdateStore(p)

SpecValidation == InitValidation /\ [][NextValidation]_vars

\* The five conditions in the order of the claim, each with its error.
Conditions(rec) ==
    << <<rec.City = "", "city is required">>,
       <<rec.ShortenedPostcode = "", "shortened postcode is required">>,
       <<rec.Region = "", "region is required">>,
       <<rec.PropertyType = "", "property type is required">>,
       <<rec.PriceInCents <= 0, "price must be greater than 0">> >>
Failing(rec) == {i \in 1..5 : Conditions(rec)[i][1]}
FirstFailing(rec) ==
    Conditions(rec)[CHOOSE i \in Failing(rec) : \A j \in Failing(rec) : i <= j][2]

\* C16: a listing Create or Update of a record that fails one of the five
\* conditions fails with the error of the first condition it fails, and a
\* listing Create of a record that meets all five returns no error.
ListingValidation ==
    [][\A p \in Procs :
         LET rec == At(heap, call[p].arg) IN
         /\ (repo = "listing" /\ call[p].op \in {"Create", "Update"}
                 /\ pc[p] = "validate" /\ Steps(p)) =>
                IF Failing(rec) # {}
                THEN call'[p].err = FirstFailing(rec) /\ pc'[p] = "unlock"
                ELSE call[p].op = "Create" => call'[p].err = NoErr
         /\ (repo = "listing" /\ call[p].op = "Create"
                 /\ pc[p] = "unlock" /\ Steps(p) /\ Failing(call[p].given) = {}) =>
                call[p].err = NoErr]_vars

\* A listing Update of a stored identity with neither a city nor a positive
\* price has failed with the error of the city.
FirstFailureReported ==
    \E p \in Procs :
        /\ repo = "listing"
        /\ call[p].op = "Update" /\ pc[p] = "unlock"
        /\ call[p].given.ID \in DOMAIN data
        /\ Failing(call[p].given) = {1, 5}
        /\ call[p].err = "city is required"

\* ---------------------------------------------------- callers that read
\* A single caller that keeps a record a read returned and writes to it:
\* to one field (WriteField) or, in the entity repository, to the whole
\* record at once (*example = ExampleModel{}).
WriteRecord(p) ==
    /\ repo = "example"
    /\ pc[p] = "idle"
    /\ ref[p] # Nil
    /\ At(heap, ref[p]) # ExampleModel(0, "", "")
    /\ Commit(Store(heap, ref[p], ExampleModel(0, "", "")), data, ref, call)
    /\ UNCHANGED <<repo, nextID, mu, now, pc, assigned, created, deleted>>

\* The pointer the caller keeps: one a successful read returned (for one of
\* the identities it asks for), or the one it already holds.
KeptFromRead(p) ==
    IF call[p].err = NoErr /\ call[p].op \in {"GetByID", "GetAll"}
    THEN {call[p].res[k] : k \in DOMAIN call[p].res \cap IdInputs} \cup {ref[p]}
    ELSE {ref[p]}

InitReads ==
    /\ repo \in {"example", "listing"}
    /\ Start(NewRepository(repo), 1)
    /\ assigned = <<>>
    /\ created = [on |-> FALSE, of |-> EmptyMap]
    /\ deleted = {}

NextReads ==
    \E p \in {1} :
        \/ WriteField(p)
        \/ WriteRecord(p)
        \/ CallCreate(p, ValidRecords({0}))
        \/ CallGetByID(p, IdInputs)
        \/ CallGetAll(p)
        \/ CallUpdate(p, ValidRecords(IdInputs))
        \/ CallDelete(p, IdInputs)
        \/ Return(p, KeptFromRead(p))
        \/ Step(p)

SpecReads == InitReads /\ [][NextReads]_vars

\* The caller writes to the record it holds: the only steps it takes outside
\* a repository call.
CallerWrites == \E p \in Procs : pc[p] = "idle" /\ pc'[p] = "idle" /\ heap' # heap

\* C17: a record returned by entity GetByID or GetAll is a record of its own,
\* none of the stored ones; no write of the caller to a returned record
\* changes the store; and every read returns the store's content (so later
\* reads return what they would have returned without the writes).
EntityReadsAreCopies ==
    [][repo = "example" =>
         /\ CallerWrites => StoreView' = StoreView
         /\ \A p \in Procs :
              (pc[p] = "read" /\ pc'[p] = "unlock") =>
                  /\ \A k \in DOMAIN call'[p].res : call'[p].res[k] \notin Range(data')
                  /\ Result(p)' = IF call[p].op = "GetAll" THEN StoreView.recs
                                  ELSE IF call[p].arg \in DOMAIN data
                                       THEN Put(EmptyMap, call[p].arg,
                                                StoreView.recs[call[p].arg])
                                       ELSE EmptyMap]_vars

\* The caller has overwritten a record an entity read returned, and the
\* store still holds records.
CopyOverwritten ==
    \E p \in Procs :
        /\ repo = "example"
        /\ pc[p] = "idle"
        /\ ref[p] # Nil
        /\ At(heap, ref[p]) = ExampleModel(0, "", "")
        /\ DOMAIN data # {}

\* C18: a listing returned by listing GetByID or GetAll is a copy: no write
\* of the caller to a returned listing changes the store.
ListingReadsAreCopies ==
    [][(repo = "listing" /\ CallerWrites) => StoreView' = StoreView]_vars

\* ------------------------------------------- callers that keep what they pass
\* A single caller that keeps the record it passed to a successful Create or
\* Update (as service.CreateExample returns it and the concurrency test goes
\* on using it) and writes to it.
KeptFromWrite(p) ==
    IF call[p].err = NoErr /\ call[p].op \in {"Create", "Update"}
    THEN {call[p].arg, ref[p]}
    ELSE {ref[p]}

InitWrites ==
    /\ repo \in {"example", "listing"}
    /\ Start(NewRepository(repo), 1)
    /\ assigned = <<>>
    /\ created = [on |-> FALSE, of |-> EmptyMap]
    /\ deleted = {}

NextWrites ==
    \E p \in {1} :
        \/ WriteField(p)
        \/ CallCreate(p, ValidRecords({0}))
        \/ CallGetByID(p, IdInputs)
        \/ CallGetAll(p)
        \/ CallUpdate(p, ValidRecords(IdInputs))
        \/ CallDelete(p, IdInputs)
        \/ Return(p, KeptFromWrite(p))
        \/ Step(p)

SpecWrites == InitWrites /\ [][NextWrites]_vars

\* C19: the record the caller passed to a successful Create or Update is not
\* shared with the store: no write of the caller to that record changes the
\* store.
PassedRecordNotShared ==
    [][CallerWrites => StoreView' = StoreView]_vars

\* C20: GetAll returns no error and exactly one record for each identity in
\* the store and nothing else: as many records as the store has, and among
\* them one with each stored identity (none on an empty store).
GetAllListsStore ==
    \A p \in Procs :
        (call[p].op = "GetAll" /\ pc[p] = "unlock") =>
            /\ call[p].err = NoErr
            /\ Cardinality(DOMAIN call[p].res) = Cardinality(DOMAIN data)
            /\ \A id \in DOMAIN data :
                 Cardinality({k \in DOMAIN call[p].res : Result(p)[k].ID = id}) = 1

\* C21: the step of Delete(id) that looks id up fails with the not-found
\* error and leaves the store as it was when id is not a key of the store;
\* otherwise it succeeds and removes exactly the key id: every other key
\* keeps its record (identity and field values), the store has one record
\* less, and the identity counter stays as it was.
DeleteRemovesOne ==
    [][\A p \in Procs :
         (call[p].op = "Delete" /\ pc[p] = "delete" /\ Steps(p)) =>
             LET id == call[p].arg IN
             IF id \notin DOMAIN data
             THEN call'[p].err = "not found" /\ StoreView' = StoreView
             ELSE /\ call'[p].err = NoErr
                  /\ DOMAIN data' = DOMAIN data \ {id}
                  /\ \A k \in DOMAIN data' : At(heap', data'[k]) = At(heap, data[k])
                  /\ Cardinality(DOMAIN data') = Cardinality(DOMAIN data) - 1
                  /\ nextID' = nextID]_vars

\* A Delete has removed one of two records created, and the other is still
\* stored.
DeletedOneOfTwo ==
    \E p \in Procs :
        /\ call[p].op = "Delete" /\ pc[p] = "unlock" /\ call[p].err = NoErr
        /\ call[p].arg \notin DOMAIN data
        /\ Cardinality(DOMAIN data \cap IdInputs) = 1
        /\ nextID = FirstID(repo) + 2

\* C22: the step of a Create that stores the record adds exactly one key, the
\* counter's value; the step that follows it advances the counter by exactly
\* 1; no other step of any call changes the counter or adds a key, so a
\* Create that fails and every Update, Delete and read leave the counter as
\* it was.
CounterAdvancesOnCreate ==
    [][/\ \A p \in Procs :
            /\ (call[p].op = "Create" /\ pc[p] = "store" /\ Steps(p)) =>
                   /\ nextID \notin DOMAIN data
                   /\ DOMAIN data' = DOMAIN data \cup {nextID}
                   /\ Cardinality(DOMAIN data') = Cardinality(DOMAIN data) + 1
            /\ (call[p].op = "Create" /\ pc[p] = "incr" /\ Steps(p)) =>
                   call[p].err = NoErr /\ nextID' = nextID + 1
       /\ nextID' # nextID =>
            \E p \in Procs : call[p].op = "Create" /\ pc[p] = "incr" /\ Steps(p)
       /\ ~(DOMAIN data' \subseteq DOMAIN data) =>
            \E p \in Procs : call[p].op = "Create" /\ pc[p] = "store" /\ Steps(p)]_vars

\* A Create has failed after another one succeeded, and the counter is one
\* past its first value.
FailedCreateAfterCreate ==
    \E p \in Procs :
        /\ call[p].op = "Create" /\ pc[p] = "unlock" /\ call[p].err # NoErr
        /\ nextID = FirstID(repo) + 1
        /\ Cardinality(DOMAIN data) = Cardinality(DOMAIN NewRepository(repo).data) + 1

\* ------------------------------------------------------- listing filters
\* Listings created per behaviour of the filter scenario.
MaxListings == 3

\* The listings of the filter tests: three listings that differ in every
\* field a filter looks at.  IsFeatured is the flag the listings of
\* TestListingRepository_GetFeatured carry; models.Listing declares no field
\* for it and no repository operation reads it.
FilterListings ==
    { Listing(0, "London", "W1", RegionSouthEast, PropertyTypeApartment, 1, 1, 5000000,
              stringPtr("2023-01-01T00:00:00Z")) @@ [IsFeatured |-> TRUE],
      Listing(0, "Manchester", "M1", RegionNorthWest, PropertyTypeDetached, 3, 3, 15000000,
              stringPtr("2023-01-01T00:00:00Z")) @@ [IsFeatured |-> FALSE],
      Listing(0, "Birmingham", "B1", RegionMidlands, PropertyTypeTerraced, 2, 2, 25000000,
              stringPtr("2023-01-01T00:00:00Z")) @@ [IsFeatured |-> TRUE] }

\* The arguments the caller passes to the filters.
RegionQueries == {RegionSouthEast, RegionNorthWest, "south east", RegionWales}
PropertyTypeQueries ==
    {PropertyTypeApartment, PropertyTypeDetached, "Apartment", PropertyTypeEndTerrace}
CityQueries == {"London", "london", "man", "ond", "Edinburgh", ""}
PriceBounds == {0, 5000000, 15000000, 20000000}
RoomBounds == {0, 1, 2, 3}

\* The characters of the strings SearchByCity works on.
Chars(s) ==
    CASE s = "London" -> <<"L", "o", "n", "d", "o", "n">>
      [] s = "Manchester" -> <<"M", "a", "n", "c", "h", "e", "s", "t", "e", "r">>
      [] s = "Birmingham" -> <<"B", "i", "r", "m", "i", "n", "g", "h", "a", "m">>
      [] s = "Edinburgh" -> <<"E", "d", "i", "n", "b", "u", "r", "g", "h">>
      [] s = "london" -> <<"l", "o", "n", "d", "o", "n">>
      [] s = "man" -> <<"m", "a", "n">>
      [] s = "ond" -> <<"o", "n", "d">>
      [] s = "" -> <<>>

\* strings.ToLower, letter by letter.
UpperCase == <<"A", "B", "C", "D", "E", "F", "G", "H", "I", "J", "K", "L", "M",
               "N", "O", "P", "Q", "R", "S", "T", "U", "V", "W", "X", "Y", "Z">>
LowerCase == <<"a", "b", "c", "d", "e", "f", "g", "h", "i", "j", "k", "l", "m",
               "n", "o", "p", "q", "r", "s", "t", "u", "v", "w", "x", "y", "z">>
ToLower(cs) ==
    [i \in DOMAIN cs |->
        IF \E k \in DOMAIN UpperCase : UpperCase[k] = cs[i]
        THEN LowerCase[CHOOSE k \in DOMAIN UpperCase : UpperCase[k] = cs[i]]
        ELSE cs[i]]

\* strings.Contains: sub occurs in cs at some position.
Contains(cs, sub) ==
    \E i \in 0..(Len(cs) - Len(sub)) :
        \A j \in 1..Len(sub) : cs[i + j] = sub[j]

\* The loop of every filter appends the stored pointers of the listings that
\* pass its test: ids are their identities.
Matching(ids) == [k \in ids |-> data[k]]

\* A filter's body: the loop, then return listings, nil.
Filter(p, op, ids) ==
    /\ InBody(p, "listing", op, "read")
    /\ call' = [call EXCEPT ![p].res = Matching(ids)]
    /\ Goto(p, "unlock")
    /\ UNCHANGED <<repo, heap, data, nextID, mu, now, ref, assigned, created, deleted>>

\* (A variant that returns every listing, whatever its region.)
ListingGetByRegionAll(p) ==
    Filter(p, "GetByRegion", DOMAIN data)
ListingGetByRegion(p) ==
    Filter(p, "GetByRegion",
           {id \in DOMAIN data : At(heap, data[id]).Region = call[p].arg})

ListingGetByPropertyType(p) ==
    Filter(p, "GetByPropertyType",
           {id \in DOMAIN data : At(heap, data[id]).PropertyType = call[p].arg})

\* for _, listing := range r.data { listings = append(listings, listing) }
ListingGetFeatured(p) ==
    Filter(p, "GetFeatured", DOMAIN data)

\* (A variant that compares the city and the query as they are.)
ListingSearchByCityExact(p) ==
    Filter(p, "SearchByCity",
           {id \in DOMAIN data :
               Contains(Chars(At(heap, data[id]).City), Chars(call[p].arg))})
\* (A variant that finds nothing when the query is empty.)
ListingSearchByCityNonEmpty(p) ==
    Filter(p, "SearchByCity",
           {id \in DOMAIN data :
               /\ call[p].arg # ""
               /\ Contains(ToLower(Chars(At(heap, data[id]).City)),
                           ToLower(Chars(call[p].arg)))})
ListingSearchByCity(p) ==
    Filter(p, "SearchByCity",
           {id \in DOMAIN data :
               Contains(ToLower(Chars(At(heap, data[id]).City)),
                        ToLower(Chars(call[p].arg)))})

\* (A variant that leaves the upper bound out of the range.)
ListingGetByPriceRangeBelowMax(p) ==
    Filter(p, "GetByPriceRange",
           {id \in DOMAIN data : /\ At(heap, data[id]).PriceInCents >= call[p].arg[1]
                                 /\ At(heap, data[id]).PriceInCents < call[p].arg[2]})
ListingGetByPriceRange(p) ==
    Filter(p, "GetByPriceRange",
           {id \in DOMAIN data : /\ At(heap, data[id]).PriceInCents >= call[p].arg[1]
                                 /\ At(heap, data[id]).PriceInCents <= call[p].arg[2]})

ListingGetByBedroomRange(p) ==
    Filter(p, "GetByBedroomRange",
           {id \in DOMAIN data : /\ At(heap, data[id]).Bedrooms >= call[p].arg[1]
                                 /\ At(heap, data[id]).Bedrooms <= call[p].arg[2]})

ListingGetByBathroomRange(p) ==
    Filter(p, "GetByBathroomRange",
           {id \in DOMAIN data : /\ At(heap, data[id]).Bathrooms >= call[p].arg[1]
                                 /\ At(heap, data[id]).Bathrooms <= call[p].arg[2]})

\* The calls of the filter scenario: repo.Create for one of the listings, and
\* each filter with each of its arguments.
CallCreateListing(p) ==
    /\ nextID <= MaxListings
    /\ \E listing \in FilterListings :
         Invoke(p, "Create", NewAddr(heap), Store(heap, NewAddr(heap), listing))
CallGetByRegion(p) == \E x \in RegionQueries : Invoke(p, "GetByRegion", x, heap)
CallGetByPropertyType(p) ==
    \E x \in PropertyTypeQueries : Invoke(p, "GetByPropertyType", x, heap)
CallGetFeatured(p) == Invoke(p, "GetFeatured", 0, heap)
CallSearchByCity(p) == \E s \in CityQueries : Invoke(p, "SearchByCity", s, heap)
CallGetByPriceRange(p) ==
    \E min \in PriceBounds, max \in PriceBounds :
        Invoke(p, "GetByPriceRange", <<min, max>>, heap)
CallGetByBedroomRange(p) ==
    \E min \in RoomBounds, max \in RoomBounds :
        Invoke(p, "GetByBedroomRange", <<min, max>>, heap)
CallGetByBathroomRange(p) ==
    \E min \in RoomBounds, max \in RoomBounds :
        Invoke(p, "GetByBathroomRange", <<min, max>>, heap)

\* A single caller on the empty repository of the filter tests.
InitFilters ==
    /\ repo = "listing"
    /\ Start(EmptyRepository, 1)
    /\ assigned = <<>>
    /\ created = [on |-> FALSE, of |-> EmptyMap]
    /\ deleted = {}

NextFilters ==
    \E p \in {1} :
        \/ CallCreateListing(p)
        \/ CallGetByRegion(p)
        \/ CallGetByPropertyType(p)
        \/ CallGetFeatured(p)
        \/ CallSearchByCity(p)
        \/ CallGetByPriceRange(p)
        \/ CallGetByBedroomRange(p)
        \/ CallGetByBathroomRange(p)
        \/ Lock(p)
        \/ RLock(p)
        \/ Return(p, {Nil})
        \/ ListingCreateValidate(p)
        \/ ListingCreateAssign(p)
        \/ ListingCreateVisible(p)
        \/ ListingCreateStore(p)
        \/ ListingCreateIncr(p)
        \/ ListingGetByRegion(p)
        \/ ListingGetByPropertyType(p)
        \/ ListingGetFeatured(p)
        \/ ListingSearchByCity(p)
        \/ ListingGetByPriceRange(p)
        \/ ListingGetByBedroomRange(p)
        \/ ListingGetByBathroomRange(p)

SpecFilters == InitFilters /\ [][NextFilters]_vars

\* The step in which the filter op builds its result, and what a filter
\* returned in terms of the store: the stored listings under a set of keys.
FilterStep(p, op) ==
    repo = "listing" /\ call[p].op = op /\ pc[p] = "read" /\ pc'[p] = "unlock"
Returned(p, ids) ==
    /\ call'[p].err = NoErr
    /\ DOMAIN call'[p].res = ids
    /\ \A k \in ids : Result(p)'[k] = StoreView.recs[k]

\* C24: GetFeatured returns exactly the stored listings flagged as featured.
FeaturedOnly ==
    \A p \in Procs :
        (call[p].op = "GetFeatured" /\ pc[p] = "unlock") =>
            /\ call[p].err = NoErr
            /\ DOMAIN call[p].res = {id \in DOMAIN data : At(heap, data[id]).IsFeatured}

\* The value a range filter compares.
RangeValue(op, listing) ==
    CASE op = "GetByPriceRange" -> listing.PriceInCents
      [] op = "GetByBedroomRange" -> listing.Bedrooms
      [] op = "GetByBathroomRange" -> listing.Bathrooms

\* C25: GetByPriceRange, GetByBedroomRange and GetByBathroomRange return no
\* error and exactly the stored listings whose value v satisfies
\* min <= v <= max: a listing whose value is min or max is in the result,
\* and the result is empty when min > max.
RangesInclusive ==
    [][\A p \in Procs :
         \A op \in {"GetByPriceRange", "GetByBedroomRange", "GetByBathroomRange"} :
             FilterStep(p, op) =>
                 LET min == call[p].arg[1]
                     max == call[p].arg[2]
                     v(id) == RangeValue(op, StoreView.recs[id])
                 IN  /\ Returned(p, {id \in DOMAIN data : min <= v(id) /\ v(id) <= max})
                     /\ \A id \in DOMAIN data :
                          (min <= max /\ v(id) \in {min, max}) => id \in DOMAIN call'[p].res
                     /\ min > max => call'[p].res = EmptyMap]_vars

\* GetByPriceRange(5000000, 15000000) has returned the two listings priced at
\* its bounds and not the third stored listing.
BoundsIncluded ==
    \E p \in Procs :
        /\ call[p].op = "GetByPriceRange" /\ pc[p] = "unlock"
        /\ call[p].arg = <<5000000, 15000000>>
        /\ Cardinality(DOMAIN data) = 3
        /\ {Result(p)[k].PriceInCents : k \in DOMAIN call[p].res} = {5000000, 15000000}
        /\ \E id \in DOMAIN data : At(heap, data[id]).PriceInCents = 25000000

\* C26: SearchByCity(s) returns no error and exactly the stored listings
\* whose city, lower-cased, contains s lower-cased: the queries "London",
\* "london" (letter case), "ond" (inner part) and "" find every listing of
\* London, "man" (prefix, letter case) every listing of Manchester, and
\* "Edinburgh", a substring of no stored city, finds nothing.
SearchIgnoresCase ==
    [][\A p \in Procs :
         FilterStep(p, "SearchByCity") =>
             LET s == call[p].arg
                 city(id) == StoreView.recs[id].City
             IN  /\ Returned(p, {id \in DOMAIN data :
                                    Contains(ToLower(Chars(city(id))), ToLower(Chars(s)))})
                 /\ \A id \in DOMAIN data :
                      /\ (city(id) = "London" /\ s \in {"London", "london", "ond", ""}) =>
                             id \in DOMAIN call'[p].res
                      /\ (city(id) = "Manchester" /\ s = "man") =>
                             id \in DOMAIN call'[p].res
                      /\ (city(id) = "Manchester" /\ s \in {"London", "london", "ond"}) =>
                             id \notin DOMAIN call'[p].res
                 /\ s = "Edinburgh" => call'[p].res = EmptyMap]_vars

\* SearchByCity("man") has returned the listing of Manchester and not the
\* stored listing of London.
PrefixFound ==
    \E p \in Procs :
        /\ call[p].op = "SearchByCity" /\ pc[p] = "unlock"
        /\ call[p].arg = "man"
        /\ {Result(p)[k].City : k \in DOMAIN call[p].res} = {"Manchester"}
        /\ \E id \in DOMAIN data : At(heap, data[id]).City = "London"

\* C27: GetByRegion(x) and GetByPropertyType(x) return no error and exactly
\* the stored listings whose region (property type) is the string x, letter
\* case included; a value no stored listing has gives an empty result.
ExactMatch ==
    [][\A p \in Procs :
         /\ FilterStep(p, "GetByRegion") =>
                /\ Returned(p, {id \in DOMAIN data : StoreView.recs[id].Region = call[p].arg})
                /\ call[p].arg \in {"south east", RegionWales} => call'[p].res = EmptyMap
         /\ FilterStep(p, "GetByPropertyType") =>
                /\ Returned(p, {id \in DOMAIN data :
                                   StoreView.recs[id].PropertyType = call[p].arg})
                /\ call[p].arg \in {"Apartment", PropertyTypeEndTerrace} =>
                       call'[p].res = EmptyMap]_vars

\* GetByRegion(RegionSouthEast) has returned the South East listing out of
\* three stored listings of different regions.
RegionFound ==
    \E p \in Procs :
        /\ call[p].op = "GetByRegion" /\ pc[p] = "unlock"
        /\ call[p].arg = RegionSouthEast
        /\ Cardinality(DOMAIN call[p].res) = 1
        /\ Cardinality({At(heap, data[id]).Region : id \in DOMAIN data}) = 3

\* ------------------------------------------- the service and the handlers
\* server.go wires NewExampleRepository into example.NewService and that into
\* handlers.NewExampleHandler.  A request is served by one goroutine, which
\* goes through the handler, the service, the repository, and back.

\* The :id parameters of the requests, as the characters of the path segment.
IdParams == {<<"1">>, <<"2">>, <<"9", "9", "9">>, <<"-", "1">>,
             <<"i", "n", "v", "a", "l", "i", "d">>}

\* strconv.ParseInt(idStr, 10, 64) on the short parameters above: an optional
\* sign, then decimal digits only, at least one.
DigitValue(c) ==
    CASE c = "0" -> 0 [] c = "1" -> 1 [] c = "2" -> 2 [] c = "3" -> 3 [] c = "4" -> 4
      [] c = "5" -> 5 [] c = "6" -> 6 [] c = "7" -> 7 [] c = "8" -> 8 [] c = "9" -> 9
      [] OTHER -> -1
RECURSIVE ParseUint(_, _)
ParseUint(cs, acc) ==
    IF cs = <<>> THEN acc ELSE ParseUint(Tail(cs), 10 * acc + DigitValue(Head(cs)))
ParseInt(cs) ==
    LET signed == cs # <<>> /\ Head(cs) \in {"+", "-"}
        digits == IF signed THEN Tail(cs) ELSE cs
    IN  IF digits = <<>> \/ \E i \in 1..Len(digits) : DigitValue(digits[i]) < 0
        THEN [n |-> 0, err |-> "invalid syntax"]
        ELSE [n |-> IF signed /\ Head(cs) = "-" THEN 0 - ParseUint(digits, 0)
                    ELSE ParseUint(digits, 0),
              err |-> NoErr]

\* github.com/pkg/errors.  An error value is the chain of the objects Unwrap
\* walks, outermost first; nil is the empty chain.  Every object is a pointer
\* to a fresh allocation: ptr numbers the allocations of one request, n being
\* the number made so far.
NilError == <<>>
ErrorsNew(msg, n) == <<[type |-> "*fundamental", msg |-> msg, ptr |-> n + 1]>>
ErrorsWrap(err, msg, n) ==
    IF err = NilError THEN NilError
    ELSE <<[type |-> "*withStack", msg |-> "", ptr |-> n + 2],
           [type |-> "*withMessage", msg |-> msg, ptr |-> n + 1]>> \o err
\* The allocations of a chain.
Allocs(err) == Len(err)

\* errors.Is(err, target): some object of err's chain == target.  Neither type
\* has an Is method, so == on the interface values decides: the same dynamic
\* type and the same pointer.
ErrorsIs(err, target) ==
    \E i \in 1..Len(err) : err[i].type = target[1].type /\ err[i].ptr = target[1].ptr

\* The error a repository operation returns, as a value of pkg/errors: the
\* not-found error is errors.Wrapf(errors.New("not found"), "example not found
\* with id: %d", id), the others are errors.New(message).
RepositoryError(err, id) ==
    IF err = NoErr THEN NilError
    ELSE IF err = "not found"
         THEN ErrorsWrap(ErrorsNew("not found", 0),
                         "example not found with id: " \o ToString(id), 1)
    ELSE ErrorsNew(err, 0)

\* A request in progress: the repository call it makes (NoCall's fields), and
\* handler: the handler that serves it ("" when the service is called
\* directly, as the service tests do); svc: the service operation; id, name,
\* email: its arguments; calls: the repository calls the service has made;
\* error: the error value in hand; status, body: the response written.
Request(handler, svc, id, name, email) ==
    NoCall @@ [handler |-> handler, svc |-> svc, id |-> id, name |-> name,
               email |-> email, calls |-> 0, error |-> NilError, status |-> 0,
               body |-> [error |-> ""]]

\* The repository operation behind each service operation.
RepositoryOp(svc) ==
    CASE svc = "CreateExample" -> "Create"
      [] svc = "GetExampleByID" -> "GetByID"
      [] svc = "GetAllExamples" -> "GetAll"
      [] svc = "UpdateExample" -> "Update"
      [] svc = "DeleteExample" -> "Delete"

\* (A variant that leaves the checks to the repository.)
ServiceRequiredNone(svc, name, email) == NoErr
\* The checks CreateExample and UpdateExample make before they call the
\* repository.
ServiceRequired(svc, name, email) ==
    IF svc \notin {"CreateExample", "UpdateExample"} THEN NoErr
    ELSE IF name = "" THEN "name is required"
    ELSE IF email = "" THEN "email is required"
    ELSE NoErr

\* The service operation svc is entered: it returns at once with an error, or
\* builds the record (CreateExample, UpdateExample) and calls the repository.
ServiceCall(p, handler, svc, id, name, email) ==
    /\ pc[p] = "idle"
    /\ LET rq == Request(handler, svc, id, name, email)
           err == ServiceRequired(svc, name, email)
           op == RepositoryOp(svc)
           a == NewAddr(heap)
       IN  IF err # NoErr
           THEN /\ pc' = [pc EXCEPT ![p] = "served"]
                /\ call' = [call EXCEPT ![p] = [rq EXCEPT !.error = ErrorsNew(err, 0)]]
                /\ UNCHANGED <<heap, data, ref>>
           ELSE /\ pc' = [pc EXCEPT ![p] = "lock"]
                /\ IF op \in {"Create", "Update"}
                   THEN Commit(Store(heap, a, ExampleModel(id, name, email)), data, ref,
                               [call EXCEPT ![p] =
                                   [rq EXCEPT !.op = op, !.arg = a, !.calls = 1,
                                              !.given = ExampleModel(id, name, email)]])
                   ELSE Commit(heap, data, ref,
                               [call EXCEPT ![p] =
                                   [rq EXCEPT !.op = op, !.arg = id, !.calls = 1]])
    /\ UNCHANGED <<repo, nextID, mu, now, assigned, created, deleted>>

\* The service called directly: service.CreateExample(ctx, name, email) and
\* service.UpdateExample(ctx, id, name, email).
CallCreateExample(p) ==
    /\ CanCreate
    /\ \E name \in Names, email \in Emails :
         ServiceCall(p, "", "CreateExample", 0, name, email)
CallUpdateExample(p) ==
    \E id \in IdInputs, name \in Names, email \in Emails :
        ServiceCall(p, "", "UpdateExample", id, name, email)

\* The response a handler writes without calling the service.
Respond(p, handler, status, body) ==
    /\ pc[p] = "idle"
    /\ pc' = [pc EXCEPT ![p] = "responded"]
    /\ call' = [call EXCEPT ![p] = [Request(handler, "", 0, "", "") EXCEPT
                                       !.status = status, !.body = body]]
    /\ UNCHANGED <<repo, heap, data, nextID, mu, now, ref, assigned, created, deleted>>

\* c.ShouldBindJSON(&req) with `binding:"required"` on both fields.
BindFails(name, email) == name = "" \/ email = ""

\* POST /examples
HandlerCreateExample(p) ==
    /\ CanCreate
    /\ \E name \in Names, email \in Emails :
         IF BindFails(name, email)
         THEN Respond(p, "CreateExample", 400, [error |-> "Invalid request body"])
         ELSE ServiceCall(p, "CreateExample", "CreateExample", 0, name, email)
\* GET /examples/:id
HandlerGetExampleByID(p) ==
    \E idStr \in IdParams :
        IF ParseInt(idStr).err # NoErr
        THEN Respond(p, "GetExampleByID", 400, [error |-> "Invalid ID parameter"])
        ELSE ServiceCall(p, "GetExampleByID", "GetExampleByID", ParseInt(idStr).n, "", "")
\* GET /examples
HandlerGetAllExamples(p) ==
    ServiceCall(p, "GetAllExamples", "GetAllExamples", 0, "", "")
\* PUT /examples/:id
HandlerUpdateExample(p) ==
    \E idStr \in IdParams, name \in Names, email \in Emails :
        IF ParseInt(idStr).err # NoErr
        THEN Respond(p, "UpdateExample", 400, [error |-> "Invalid ID parameter"])
        ELSE IF BindFails(name, email)
        THEN Respond(p, "UpdateExample", 400, [error |-> "Invalid request body"])
        ELSE ServiceCall(p, "UpdateExample", "UpdateExample", ParseInt(idStr).n, name, email)
\* DELETE /examples/:id
HandlerDeleteExample(p) ==
    \E idStr \in IdParams :
        IF ParseInt(idStr).err # NoErr
        THEN Respond(p, "DeleteExample", 400, [error |-> "Invalid ID parameter"])
        ELSE ServiceCall(p, "DeleteExample", "DeleteExample", ParseInt(idStr).n, "", "")

\* The repository's deferred unlock and its return to the service, with the
\* error value it built.
RepositoryReturn(p) ==
    /\ pc[p] = "unlock"
    /\ mu' = IF call[p].op \in MutationOps
             THEN [mu EXCEPT !.w = Nil]
             ELSE [mu EXCEPT !.r = @ \ {p}]
    /\ pc' = [pc EXCEPT ![p] = "service"]
    /\ call' = [call EXCEPT ![p].error = RepositoryError(call[p].err, call[p].id)]
    /\ UNCHANGED <<repo, heap, data, nextID, now, ref, assigned, created, deleted>>

\* The message each service operation wraps a repository error in.
ServiceMessage(svc, id) ==
    CASE svc = "CreateExample" -> "failed to create example"
      [] svc = "GetExampleByID" -> "failed to get example with id: " \o ToString(id)
      [] svc = "GetAllExamples" -> "failed to get all examples"
      [] svc = "UpdateExample" -> "failed to update example with id: " \o ToString(id)
      [] svc = "DeleteExample" -> "failed to delete example with id: " \o ToString(id)

\* The rest of the service operation: if err != nil it returns nil and
\* errors.Wrap(err, ...); otherwise the record it passed (CreateExample,
\* UpdateExample) or what the repository returned.  res holds the result.
ServiceReturn(p) ==
    /\ pc[p] = "service"
    /\ pc' = [pc EXCEPT ![p] = "served"]
    /\ LET c == call[p] IN
       IF c.error # NilError
       THEN Commit(heap, data, ref,
                   [call EXCEPT ![p].res = EmptyMap,
                                ![p].error = ErrorsWrap(c.error, ServiceMessage(c.svc, c.id),
                                                        Allocs(c.error))])
       ELSE IF c.op \in {"Create", "Update"}
            THEN Commit(heap, data, ref,
                        [call EXCEPT ![p].res = Put(EmptyMap, At(heap, c.arg).ID, c.arg)])
            ELSE UNCHANGED <<heap, data, ref, call>>
    /\ UNCHANGED <<repo, nextID, mu, now, assigned, created, deleted>>

\* The records of a result, as c.JSON writes them.
Records(h, res) == [k \in DOMAIN res |-> At(h, res[k])]

\* What each handler answers once the service has returned.
HandlerFailure(handler) ==
    CASE handler = "CreateExample" -> "Failed to create example"
      [] handler = "GetExampleByID" -> "Failed to get example"
      [] handler = "GetAllExamples" -> "Failed to get examples"
      [] handler = "UpdateExample" -> "Failed to update example"
      [] handler = "DeleteExample" -> "Failed to delete example"
HandlerSuccess(handler, h, res) ==
    CASE handler = "CreateExample" -> [status |-> 201, body |-> Records(h, res)]
      [] handler = "DeleteExample" ->
            [status |-> 200, body |-> [message |-> "Example deleted successfully"]]
      [] OTHER -> [status |-> 200, body |-> Records(h, res)]

\* if err != nil { if errors.Is(err, errors.New("not found")) { 404 }; 500 }
\* in GetExampleByID, UpdateExample and DeleteExample; 500 in the other two.
HandlerAnswer(handler, err, h, res) ==
    IF err = NilError THEN HandlerSuccess(handler, h, res)
    ELSE IF /\ handler \in {"GetExampleByID", "UpdateExample", "DeleteExample"}
            /\ ErrorsIs(err, ErrorsNew("not found", Allocs(err)))
         THEN [status |-> 404, body |-> [error |-> "Example not found"]]
    ELSE [status |-> 500, body |-> [error |-> HandlerFailure(handler)]]

\* The handler writes the response.
HandlerRespond(p) ==
    /\ pc[p] = "served"
    /\ call[p].handler # ""
    /\ pc' = [pc EXCEPT ![p] = "responded"]
    /\ LET a == HandlerAnswer(call[p].handler, call[p].error, heap, call[p].res) IN
         call' = [call EXCEPT ![p].status = a.status, ![p].body = a.body]
    /\ UNCHANGED <<repo, heap, data, nextID, mu, now, ref, assigned, created, deleted>>

\* The request is over: the response is sent, or the direct caller of the
\* service has its result.
RequestDone(p) ==
    /\ \/ pc[p] = "responded"
       \/ pc[p] = "served" /\ call[p].handler = ""
    /\ pc' = [pc EXCEPT ![p] = "idle"]
    /\ Commit(heap, data, ref, [call EXCEPT ![p] = NoCall])
    /\ UNCHANGED <<repo, nextID, mu, now, assigned, created, deleted>>

InitService ==
    /\ repo = "example"
    /\ Start(NewExampleRepository, 1)
    /\ assigned = <<>>
    /\ created = [on |-> FALSE, of |-> EmptyMap]
    /\ deleted = {}

NextService ==
    \E p \in {1} :
        \/ CallCreateExample(p)
        \/ CallUpdateExample(p)
        \/ HandlerCreateExample(p)
        \/ HandlerGetExampleByID(p)
        \/ HandlerGetAllExamples(p)
        \/ HandlerUpdateExample(p)
        \/ HandlerDeleteExample(p)
        \/ Lock(p)
        \/ RLock(p)
        \/ ExampleCreateValidate(p)
        \/ ExampleCreateAssign(p)
        \/ ExampleCreateStamp(p)
        \/ ExampleCreateStore(p)
        \/ ExampleCreateIncr(p)
        \/ ExampleGetByID(p)
        \/ ExampleGetAll(p)
        \/ ExampleUpdateValidate(p)
        \/ ExampleUpdateStamp(p)
        \/ ExampleUpdateStore(p)
        \/ ExampleDelete(p)
        \/ RepositoryReturn(p)
        \/ ServiceReturn(p)
        \/ HandlerRespond(p)
        \/ RequestDone(p)

SpecService == InitService /\ [][NextService]_vars

\* C28: when the repository reports that the identity does not exist, the
\* handlers GetExampleByID, UpdateExample and DeleteExample answer 404 with
\* the body "Example not found".
NotFoundAnswered404 ==
    \A p \in Procs :
        (/\ pc[p] = "responded"
         /\ call[p].handler \in {"GetExampleByID", "UpdateExample", "DeleteExample"}
         /\ call[p].err = "not found")
        => /\ call[p].status = 404
           /\ call[p].body = [error |-> "Example not found"]

\* C29: CreateExample and UpdateExample called with an empty name or an empty
\* email return an error and a nil result without calling the repository, and
\* the store is unchanged; with both non-empty they call the repository once,
\* with the record built from the arguments, and a successful CreateExample
\* returns one record with the given name and email.
ServiceChecksFirst ==
    [][\A p \in Procs :
         /\ (/\ pc[p] = "idle" /\ pc'[p] # "idle"
             /\ call'[p].svc \in {"CreateExample", "UpdateExample"})
            => LET c == call'[p] IN
               IF c.name = "" \/ c.email = ""
               THEN /\ pc'[p] = "served"
                    /\ c.error # NilError
                    /\ c.res = EmptyMap
                    /\ c.calls = 0
                    /\ StoreView' = StoreView
               ELSE /\ pc'[p] = "lock"
                    /\ c.calls = 1
                    /\ c.op = RepositoryOp(c.svc)
                    /\ At(heap', c.arg) = ExampleModel(c.id, c.name, c.email)
         /\ (pc[p] # "idle" /\ pc'[p] # "idle") => call'[p].calls = call[p].calls
         /\ (pc[p] = "service" /\ pc'[p] = "served" /\ call[p].svc = "CreateExample")
            => LET c == call'[p]
                   rs == Records(heap', c.res)
               IN  IF c.error # NilError THEN c.res = EmptyMap
                   ELSE /\ Cardinality(DOMAIN rs) = 1
                        /\ \A k \in DOMAIN rs : /\ rs[k].Name = c.name
                                                 /\ rs[k].Email = c.email
                                                 /\ c.res[k] = data'[k]
    ]_vars

\* The service, called directly, has rejected an empty name or email while the
\* repository holds a record.
RejectedByService ==
    \E p \in Procs :
        /\ pc[p] = "served"
        /\ call[p].handler = ""
        /\ call[p].svc = "CreateExample"
        /\ call[p].name = "" \/ call[p].email = ""
        /\ DOMAIN data # {}

\* C30: whenever no writer is inside an operation, each key of the store maps
\* to a record whose ID is that key, and every key is smaller than nextID.
KeyIsIdentity ==
    mu.w = Nil =>
        \A k \in DOMAIN data : At(heap, data[k]).ID = k /\ k < nextID

\* ------------------------------------------------- termination of the calls
\* sync.RWMutex in full, for the progress of the callers.  Lock first takes
\* the writers' mutex rw.w, then announces itself (from then on RLock blocks)
\* and waits until the readers inside have left; Unlock admits every reader
\* that blocked meanwhile and then releases rw.w.  A goroutine is at "drain"
\* between rw.w.Lock() and the departure of the last reader, and at "blocked"
\* when its RLock found a writer announced.
WriterPending == mu.w # Nil \/ \E q \in Procs : pc[q] = "drain"

\* rw.w.Lock() and the announcement.
LockW(p) ==
    /\ pc[p] = "lock"
    /\ call[p].op \in MutationOps
    /\ ~WriterPending
    /\ pc' = [pc EXCEPT ![p] = "drain"]
    /\ UNCHANGED <<repo, heap, data, nextID, mu, now, call, ref, assigned, created, deleted>>

\* The last reader has left: Lock returns.
LockDrained(p) ==
    /\ pc[p] = "drain"
    /\ mu.r = {}
    /\ mu' = [mu EXCEPT !.w = p]
    /\ pc' = [pc EXCEPT ![p] = FirstStep(call[p].op)]
    /\ UNCHANGED <<repo, heap, data, nextID, now, call, ref, assigned, created, deleted>>

\* RLock with no writer announced: it returns at once.
RLockFast(p) ==
    /\ pc[p] = "lock"
    /\ call[p].op \notin MutationOps
    /\ ~WriterPending
    /\ mu' = [mu EXCEPT !.r = @ \cup {p}]
    /\ pc' = [pc EXCEPT ![p] = FirstStep(call[p].op)]
    /\ UNCHANGED <<repo, heap, data, nextID, now, call, ref, assigned, created, deleted>>

\* RLock with a writer announced: the goroutine sleeps on rw.readerSem.
RLockBlock(p) ==
    /\ pc[p] = "lock"
    /\ call[p].op \notin MutationOps
    /\ WriterPending
    /\ pc' = [pc EXCEPT ![p] = "blocked"]
    /\ UNCHANGED <<repo, heap, data, nextID, mu, now, call, ref, assigned, created, deleted>>

\* The readers an Unlock admits.
Blocked == {q \in Procs : pc[q] = "blocked"}

\* (A variant whose error returns leave the mutex as it is.)
UnlockOnSuccessOnly(p) ==
    /\ pc[p] = "unlock"
    /\ IF call[p].err # NoErr
       THEN /\ mu' = mu
            /\ pc' = [pc EXCEPT ![p] = "idle"]
       ELSE IF call[p].op \in MutationOps
       THEN /\ mu' = [w |-> Nil, r |-> Blocked]
            /\ pc' = [q \in Procs |-> IF q = p THEN "idle"
                                      ELSE IF q \in Blocked THEN FirstStep(call[q].op)
                                      ELSE pc[q]]
       ELSE /\ mu' = [mu EXCEPT !.r = @ \ {p}]
            /\ pc' = [pc EXCEPT ![p] = "idle"]
    /\ Commit(heap, data, ref, [call EXCEPT ![p] = NoCall])
    /\ UNCHANGED <<repo, nextID, now, assigned, created, deleted>>
\* The deferred r.mu.Unlock() / r.mu.RUnlock() and the return to the caller,
\* on every return path.
Unlock(p) ==
    /\ pc[p] = "unlock"
    /\ IF call[p].op \in MutationOps
       THEN /\ mu' = [w |-> Nil, r |-> Blocked]
            /\ pc' = [q \in Procs |-> IF q = p THEN "idle"
                                      ELSE IF q \in Blocked THEN FirstStep(call[q].op)
                                      ELSE pc[q]]
       ELSE /\ mu' = [mu EXCEPT !.r = @ \ {p}]
            /\ pc' = [pc EXCEPT ![p] = "idle"]
    /\ Commit(heap, data, ref, [call EXCEPT ![p] = NoCall])
    /\ UNCHANGED <<repo, nextID, now, assigned, created, deleted>>

\* The callers create MaxStored records on a repository that starts empty,
\* and ask for their identities and for one more.
MaxStored == 1
FairIds == 1..(MaxStored + 1)

\* The records the callers pass: a valid one, and one without a name (entity)
\* or without a city (listing).
FairRecords(ids) ==
    IF repo = "example"
    THEN {ExampleModel(id, name, "a") : id \in ids, name \in Names}
    ELSE {[ValidListing EXCEPT !.ID = id, !.City = city] : id \in ids, city \in {"London", ""}}

CallCreateFair(p) ==
    /\ nextID + CreatesInFlight <= MaxStored
    /\ \E rec \in FairRecords({0}) :
         Invoke(p, "Create", NewAddr(heap), Store(heap, NewAddr(heap), rec))

\* One call of each filter.
CallFilter(p) ==
    /\ repo = "listing"
    /\ \/ Invoke(p, "GetByRegion", RegionSouthEast, heap)
       \/ Invoke(p, "GetByPropertyType", PropertyTypeDetached, heap)
       \/ Invoke(p, "GetFeatured", 0, heap)
       \/ Invoke(p, "SearchByCity", "london", heap)
       \/ Invoke(p, "GetByPriceRange", <<0, 15000000>>, heap)
       \/ Invoke(p, "GetByBedroomRange", <<3, 1>>, heap)
       \/ Invoke(p, "GetByBathroomRange", <<1, 1>>, heap)

\* The steps of the bodies, the mutex apart.
Body(p) ==
    \/ ExampleCreateValidate(p)
    \/ ExampleCreateAssign(p)
    \/ ExampleCreateStamp(p)
    \/ ExampleCreateStore(p)
    \/ ExampleCreateIncr(p)
    \/ ExampleGetByID(p)
    \/ ExampleGetAll(p)
    \/ ExampleUpdateValidate(p)
    \/ ExampleUpdateStamp(p)
    \/ ExampleUpdateStore(p)
    \/ ExampleDelete(p)
    \/ ListingCreateValidate(p)
    \/ ListingCreateAssign(p)
    \/ ListingCreateVisible(p)
    \/ ListingCreateStore(p)
    \/ ListingCreateIncr(p)
    \/ ListingGetByID(p)
    \/ ListingGetAll(p)
    \/ ListingUpdateValidate(p)
    \/ ListingUpdatePreserve(p)
    \/ ListingUpdateStore(p)
    \/ ListingDelete(p)
    \/ ListingGetByRegion(p)
    \/ ListingGetByPropertyType(p)
    \/ ListingGetFeatured(p)
    \/ ListingSearchByCity(p)
    \/ ListingGetByPriceRange(p)
    \/ ListingGetByBedroomRange(p)
    \/ ListingGetByBathroomRange(p)

InitFair ==
    /\ repo \in {"example", "listing"}
    /\ Start(EmptyRepository, NumProcs)
    /\ assigned = <<>>
    /\ created = [on |-> FALSE, of |-> EmptyMap]
    /\ deleted = {}

NextFair ==
    \E p \in 1..NumProcs :
        \/ CallCreateFair(p)
        \/ CallGetByID(p, FairIds)
        \/ CallGetAll(p)
        \/ CallUpdate(p, FairRecords(FairIds))
        \/ CallDelete(p, FairIds)
        \/ CallFilter(p)
        \/ LockW(p)
        \/ LockDrained(p)
        \/ RLockFast(p)
        \/ RLockBlock(p)
        \/ Unlock(p)
        \/ Body(p)

\* The positions of a goroutine that holds the lock: the steps of the bodies
\* and the deferred unlock.  There it waits for nothing, and each of its
\* steps moves it to the next position, whatever else the step does.
Inside == {"validate", "assign", "stamp", "visible", "preserve", "store", "incr",
           "read", "delete", "unlock"}
Proceeds(p) ==
    /\ pc[p] \in Inside
    /\ \E pos \in (Inside \cup {"idle"}) \ {pc[p]} : pc' = [pc EXCEPT ![p] = pos]

\* The scheduler runs every goroutine that can take a step: a goroutine
\* inside a call is not suspended for ever (weak fairness of its steps), and
\* a goroutine waiting for rw.w gets it after finitely many releases (strong
\* fairness: sync.Mutex hands the mutex to a waiter that has starved).  A
\* caller need not call again.
Fairness ==
    \A p \in 1..NumProcs :
        /\ WF_pc(Proceeds(p))
        /\ WF_vars(LockDrained(p) \/ RLockFast(p) \/ RLockBlock(p))
        /\ SF_vars(LockW(p))

SpecFair == InitFair /\ [][NextFair]_vars /\ Fairness

\* C23: every call acquires the lock and returns, and a goroutine that has
\* returned, by whatever path, holds the lock no more.
Holds(p) == mu.w = p \/ p \in mu.r
LockReleased == \A p \in Procs : pc[p] = "idle" => ~Holds(p)
EveryCallReturns ==
    /\ []LockReleased
    /\ \A p \in 1..NumProcs :
         /\ (pc[p] = "lock") ~> Holds(p)
         /\ (pc[p] # "idle") ~> (pc[p] = "idle")

\* A reader sleeps while a writer that is about to return an error holds the
\* lock.
ReaderWaitsForFailingWriter ==
    \E p \in Procs, q \in Procs :
        /\ mu.w = p
        /\ pc[p] = "unlock"
        /\ call[p].err # NoErr
        /\ pc[q] = "blocked"

\* ------------------------------------------------ the stored records
\* C31: every stored record passes the required-field checks of its
\* repository: name and email (entity); city, shortened postcode, region,
\* property type and a price above 0 (listing, the samples included).
StoredValid ==
    \A k \in DOMAIN data :
        IF repo = "example"
        THEN ExampleRequired(At(heap, data[k])) = NoErr
        ELSE ListingRequired(At(heap, data[k])) = NoErr

\* C32: in the repository NewListingRepository builds, the samples are stored
\* under their own identities, which are pairwise distinct, and the counter is
\* past all of them: it starts at the largest plus 1, and every identity a
\* Create assigns later is larger than every sample's.
SampleIDs == {sampleListings[i].ID : i \in DOMAIN sampleListings}
SamplesKeepIdentities ==
    repo = "listing" =>
        /\ Cardinality(SampleIDs) = Len(sampleListings)
        /\ DOMAIN NewListingRepository.data = SampleIDs
        /\ \A i \in DOMAIN sampleListings :
             /\ data[sampleListings[i].ID] = i
             /\ At(heap, i).ID = sampleListings[i].ID
             /\ sampleListings[i].ID < nextID
        /\ \A n \in DOMAIN assigned : assigned[n] \notin SampleIDs
        /\ assigned = <<>> =>
             /\ nextID \in {id + 1 : id \in SampleIDs}
             /\ DOMAIN data = SampleIDs

\* Two listings have been created after the samples.
CreatedAfterSamples ==
    /\ repo = "listing"
    /\ Len(assigned) = 2
    /\ \A n \in DOMAIN assigned : assigned[n] \in DOMAIN data

\* ------------------------------------- concurrent creates of one email
\* NumCallers goroutines each call Create once, all with the same email, on
\* an entity repository that is empty or holds one record with another email
\* (the state after NewExampleRepository and a Create of that record).
SameEmail == "a"
OtherRecord ==
    [ExampleModel(1, "n", "b") EXCEPT !.CreatedAt = RFC3339(1), !.UpdatedAt = RFC3339(1)]

InitSameEmail ==
    /\ repo = "example"
    /\ \/ Start(NewExampleRepository, NumCallers)
       \/ /\ heap = Put(EmptyMap, 1, OtherRecord)
          /\ data = Put(EmptyMap, 1, 1)
          /\ nextID = 2
          /\ ref = [p \in 1..NumCallers |-> Nil]
          /\ call = [p \in 1..NumCallers |-> NoCall]
          /\ mu = [w |-> Nil, r |-> {}]
          /\ now = 1
          /\ pc = [p \in 1..NumCallers |-> "idle"]
    /\ assigned = <<>>
    /\ created = [on |-> FALSE, of |-> EmptyMap]
    /\ deleted = {}

\* repo.Create(ctx, &ExampleModel{Name: ..., Email: the same for all}), once.
CallCreateSame(p) ==
    /\ ref[p] = Nil
    /\ Invoke(p, "Create", NewAddr(heap),
              Store(heap, NewAddr(heap), ExampleModel(0, "n", SameEmail)))

NextSameEmail ==
    \E p \in 1..NumCallers :
        \/ CallCreateSame(p)
        \/ Lock(p)
        \/ Return(p, Own(p))
        \/ ExampleCreateValidate(p)
        \/ ExampleCreateAssign(p)
        \/ ExampleCreateStamp(p)
        \/ ExampleCreateStore(p)
        \/ ExampleCreateIncr(p)

SpecSameEmail == InitSameEmail /\ [][NextSameEmail]_vars

\* The callers that have returned, and those among them whose Create failed:
\* their record was never given an identity.
ReturnedFrom(p) == pc[p] = "idle" /\ ref[p] # Nil
Refused(p) == ReturnedFrom(p) /\ At(heap, ref[p]).ID = 0

\* C33: of the concurrent Creates with one email, exactly one succeeds and
\* the others fail with "email already exists"; one record is added and the
\* counter advances by one.
OneCreateWins ==
    LET new == {k \in DOMAIN data : At(heap, data[k]).Email = SameEmail}
        old == DOMAIN data \ new
        won == {p \in Procs : \/ ReturnedFrom(p) /\ ~Refused(p)
                              \/ pc[p] = "unlock" /\ call[p].err = NoErr}
    IN  /\ Cardinality(new) <= 1
        /\ Cardinality(won) <= 1
        /\ \A p \in Procs :
             (pc[p] = "unlock" /\ call[p].err # NoErr)
                => call[p].err = "email already exists"
        /\ mu.w = Nil => nextID = 1 + Cardinality(old) + Cardinality(new)
        /\ (\A p \in Procs : ReturnedFrom(p))
             => /\ Cardinality(won) = 1
                /\ Cardinality({p \in Procs : Refused(p)}) = Cardinality(Procs) - 1
                /\ Cardinality(new) = 1
                /\ \A p \in won : data[At(heap, ref[p]).ID] = ref[p]

\* All the callers have returned, on the repository that held a record.
AllReturned ==
    /\ \A p \in Procs : ReturnedFrom(p)
    /\ Cardinality(Procs) >= 2
    /\ Cardinality(DOMAIN data) = 2

\* --------------------------------------------- "made visible at" lifetime
VisibleAt(h, d, id) == At(h, d[id]).MadeVisibleAt

\* C34: a stored "made visible at" value that is non-null stays non-null in
\* every step that leaves the listing stored; every listing added through
\* Create has a non-null value as long as it is stored; the step of an Update
\* that stores a request with a non-null value makes it the stored value.
VisibilityLasts ==
    [][repo = "listing" =>
         /\ \A id \in DOMAIN data \cap DOMAIN data' :
              VisibleAt(heap, data, id) # NilPtr => VisibleAt(heap', data', id) # NilPtr
         /\ \A id \in DOMAIN data' :
              id >= FirstID("listing") => VisibleAt(heap', data', id) # NilPtr
         /\ \A p \in Procs :
              (/\ InBody(p, "listing", "Update", "store")
               /\ Steps(p)
               /\ call[p].given.MadeVisibleAt # NilPtr)
                  => VisibleAt(heap', data', call[p].given.ID)
                         = call[p].given.MadeVisibleAt]_vars

\* An Update that came with its own "made visible at" value has replaced a
\* listing whose value Create had set: the caller still holds the record it
\* passed to Create, which is no longer the stored one.
VisibilityReplaced ==
    \E p \in Procs :
        /\ repo = "listing"
        /\ call[p].op = "Update" /\ pc[p] = "unlock" /\ call[p].err = NoErr
        /\ call[p].given.MadeVisibleAt # NilPtr
        /\ VisibleAt(heap, data, call[p].given.ID) = call[p].given.MadeVisibleAt
        /\ ref[p] \notin {Nil, call[p].arg}
        /\ At(heap, ref[p]).ID = call[p].given.ID
        /\ At(heap, ref[p]).MadeVisibleAt \notin {NilPtr, call[p].given.MadeVisibleAt}

\* ------------------------------------------------ the record of a failed call
\* The fields Create and Update assign to the record they are passed.
AssignedFields(rec) ==
    IF repo = "example"
    THEN <<rec.ID, rec.CreatedAt, rec.UpdatedAt>>
    ELSE <<rec.ID, rec.MadeVisibleAt>>

\* C35: when a Create or Update call is about to return an error, the record
\* the caller passed has the identity, the timestamps and the "made visible
\* at" value it had when the call was made.
FailedCallLeavesRecord ==
    \A p \in Procs :
        (/\ call[p].op \in {"Create", "Update"}
         /\ pc[p] = "unlock"
         /\ call[p].err # NoErr)
            => AssignedFields(At(heap, call[p].arg)) = AssignedFields(call[p].given)

\* An Update of a stored identity is about to return an error: a success
\* would have given the record passed the stored creation time (entity) or
\* the stored "made visible at" value (listing).
UpdateRefused ==
    \E p \in Procs :
        /\ call[p].op = "Update" /\ pc[p] = "unlock" /\ call[p].err # NoErr
        /\ call[p].given.ID \in DOMAIN data
        /\ call[p].arg # data[call[p].given.ID]
        /\ IF repo = "example"
           THEN At(heap, data[call[p].given.ID]).CreatedAt # call[p].given.CreatedAt
           ELSE /\ call[p].given.MadeVisibleAt = NilPtr
                /\ At(heap, data[call[p].given.ID]).MadeVisibleAt # NilPtr

\* ------------------------------------------------------- the empty query
\* The identities of the listings a call returned.
Identities(h, res) == {At(h, res[k]).ID : k \in DOMAIN res}

\* C36: the step in which SearchByCity("") builds its result takes every
\* stored listing, the result GetAll builds in the same state (the store
\* itself), with the same set of identities.
EmptyQueryFindsAll ==
    [][\A p \in Procs :
         (FilterStep(p, "SearchByCity") /\ call[p].arg = "") =>
             /\ call'[p].err = NoErr
             /\ call'[p].res = data
             /\ Identities(heap', call'[p].res) = Identities(heap, data)
             /\ Cardinality(DOMAIN call'[p].res) = Cardinality(DOMAIN data)]_vars

\* SearchByCity("") has returned the stored listings of two different cities.
EverythingFound ==
    \E p \in Procs :
        /\ call[p].op = "SearchByCity" /\ pc[p] = "unlock"
        /\ call[p].arg = ""
        /\ DOMAIN call[p].res = DOMAIN data
        /\ Cardinality({Result(p)[k].City : k \in DOMAIN call[p].res}) >= 2
====
